---- MODULE Spec2Model ----
(***************************************************************************)
(* A model of the regex engine: parser (parser.rs), compiler (compiler.rs) *)
(* and backtracking VM with its search driver (vm.rs), run as main.rs runs *)
(* them: parse, compile, search.                                           *)
(*                                                                         *)
(* Characters are one-character strings.  Positions, program counters and  *)
(* capture slots are 0-based as in the source; TLA+ sequences are 1-based, *)
(* so element i of a Vec is seq[i + 1].                                    *)
(***************************************************************************)
EXTENDS Integers, Sequences, FiniteSets, TLC

\* Option<usize>::None of a capture slot (positions are >= 0).
None == 0 - 1

\* Option<char>::None of peek() / advance(): never equal to a character.
EOF == ""

(***************************************************************************)
(* Bounds of the model.                                                    *)
(***************************************************************************)
\* Longest input string.
MaxLen == 3
\* The VM's recursion limit (vm.rs:12 sets 10_000), scaled down so that a
\* runaway recursion reaches it; every pattern of the catalogue that does not
\* loop on the empty string stays below it on inputs of MaxLen + 1 characters.
MAX_DEPTH == 10

(***************************************************************************)
(* ast.rs: the syntax tree.                                                *)
(***************************************************************************)
Literal(c) == [t |-> "Literal", ch |-> c]
Dot == [t |-> "Dot"]
Concat(ns) == [t |-> "Concat", nodes |-> ns]
Alternation(bs) == [t |-> "Alternation", nodes |-> bs]
Quantifier(n, k, g) == [t |-> "Quantifier", node |-> n, kind |-> k, greedy |-> g]
CharClassNode(its, neg) == [t |-> "CharClass", ranges |-> its, negated |-> neg]
ShorthandClass(k) == [t |-> "ShorthandClass", kind |-> k]
Anchor(k) == [t |-> "Anchor", kind |-> k]
Group(i, n) == [t |-> "Group", index |-> i, node |-> n]
NonCapturingGroup(n) == [t |-> "NonCapturingGroup", node |-> n]
Backreference(i) == [t |-> "Backreference", index |-> i]
Lookahead(n, p) == [t |-> "Lookahead", node |-> n, positive |-> p]
Lookbehind(n, p) == [t |-> "Lookbehind", node |-> n, positive |-> p]

\* QuantifierKind
Star == [k |-> "Star"]
Plus == [k |-> "Plus"]
Question == [k |-> "Question"]
Exact(n) == [k |-> "Exact", n |-> n]
AtLeast(n) == [k |-> "AtLeast", n |-> n]
Range(n, m) == [k |-> "Range", n |-> n, m |-> m]

\* ClassItem
ItemLiteral(c) == [i |-> "Literal", ch |-> c]
ItemRange(lo, hi) == [i |-> "Range", lo |-> lo, hi |-> hi]
ItemShorthand(k) == [i |-> "Shorthand", kind |-> k]

(***************************************************************************)
(* Characters: code points of the characters the model uses, and char's    *)
(* ASCII predicates.                                                       *)
(***************************************************************************)
Digits == <<"0", "1", "2", "3", "4", "5", "6", "7", "8", "9">>
Uppers == <<"A", "B", "C", "D", "E", "F", "G", "H", "I", "J", "K", "L", "M",
            "N", "O", "P", "Q", "R", "S", "T", "U", "V", "W", "X", "Y", "Z">>
Lowers == <<"a", "b", "c", "d", "e", "f", "g", "h", "i", "j", "k", "l", "m",
            "n", "o", "p", "q", "r", "s", "t", "u", "v", "w", "x", "y", "z">>

IndexIn(seq, c) == CHOOSE i \in 1..Len(seq) : seq[i] = c
InSeq(seq, c) == \E i \in 1..Len(seq) : seq[i] = c

is_ascii_digit(c) == InSeq(Digits, c)
is_ascii_alphanumeric(c) == InSeq(Digits, c) \/ InSeq(Uppers, c) \/ InSeq(Lowers, c)
\* U+000B, the vertical tab: it has no escape in a TLA+ string, so the
\* character is written by its name.
VT == "U+000B"

\* char::is_ascii_whitespace: U+0020, U+0009, U+000A, U+000C, U+000D.
is_ascii_whitespace(c) == c \in {" ", "\t", "\n", "\f", "\r"}

\* The code point of a character (char's Ord).
Ord(c) ==
    CASE InSeq(Digits, c) -> 47 + IndexIn(Digits, c)
      [] InSeq(Uppers, c) -> 64 + IndexIn(Uppers, c)
      [] InSeq(Lowers, c) -> 96 + IndexIn(Lowers, c)
      [] c = "\t" -> 9
      [] c = "\n" -> 10
      [] c = VT -> 11
      [] c = "\f" -> 12
      [] c = "\r" -> 13
      [] c = " " -> 32
      [] c = "!" -> 33
      [] c = "$" -> 36
      [] c = "(" -> 40
      [] c = ")" -> 41
      [] c = "*" -> 42
      [] c = "+" -> 43
      [] c = "," -> 44
      [] c = "-" -> 45
      [] c = "." -> 46
      [] c = ":" -> 58
      [] c = "<" -> 60
      [] c = "=" -> 61
      [] c = "?" -> 63
      [] c = "[" -> 91
      [] c = "\\" -> 92
      [] c = "]" -> 93
      [] c = "^" -> 94
      [] c = "_" -> 95
      [] c = "{" -> 123
      [] c = "|" -> 124
      [] c = "}" -> 125

(***************************************************************************)
(* parser.rs.  The Parser's fields are threaded through the operators:     *)
(* cs is self.chars, pos is self.pos, gc is self.group_count.  A result is *)
(* Result<AstNode, String> together with the fields after the call.        *)
(***************************************************************************)
POk(node, pos, gc) == [ok |-> TRUE, node |-> node, pos |-> pos, gc |-> gc, err |-> ""]
PErr(msg, pos, gc) == [ok |-> FALSE, node |-> Dot, pos |-> pos, gc |-> gc, err |-> msg]

peek(cs, pos) == IF pos < Len(cs) THEN cs[pos + 1] ELSE EOF

\* advance(): the cursor after the call.
advance(cs, pos) == IF pos < Len(cs) THEN pos + 1 ELSE pos

RECURSIVE parse_alternation(_, _, _)
RECURSIVE alternation_loop(_, _, _)
RECURSIVE concat_loop(_, _, _, _)
RECURSIVE concat_next(_, _, _)
RECURSIVE parse_quantified(_, _, _)
RECURSIVE parse_atom(_, _, _)
RECURSIVE parse_group(_, _, _)
RECURSIVE number_end(_, _)
RECURSIVE number_value(_, _, _)
RECURSIVE class_loop(_, _, _, _, _)

\* parse_number: the cursor after the digits, and their value.
number_end(cs, pos) ==
    IF is_ascii_digit(peek(cs, pos)) THEN number_end(cs, pos + 1) ELSE pos

number_value(cs, from, to) ==
    IF from = to THEN 0
    ELSE 10 * number_value(cs, from, to - 1) + (Ord(cs[to]) - 48)

parse_number(cs, pos) ==
    LET e == number_end(cs, pos)
    IN  IF e = pos THEN [ok |-> FALSE, n |-> 0, pos |-> e]
        ELSE [ok |-> TRUE, n |-> number_value(cs, pos, e), pos |-> e]

\* try_parse_brace_contents, entered with the cursor after '{'.
try_parse_brace_contents(cs, pos) ==
    LET n == parse_number(cs, pos)
        bad == [ok |-> FALSE, kind |-> Star, greedy |-> TRUE, pos |-> pos]
        close(kind, p) ==   \* self.expect('}')? and the optional '?'
            IF peek(cs, p) # "}" THEN bad
            ELSE IF peek(cs, p + 1) = "?"
                 THEN [ok |-> TRUE, kind |-> kind, greedy |-> FALSE, pos |-> p + 2]
                 ELSE [ok |-> TRUE, kind |-> kind, greedy |-> TRUE, pos |-> p + 1]
    IN  IF ~n.ok THEN bad
        ELSE IF peek(cs, n.pos) = ","
             THEN IF peek(cs, n.pos + 1) = "}"
                  THEN close(AtLeast(n.n), n.pos + 1)
                  ELSE LET m == parse_number(cs, n.pos + 1)
                       IN  IF ~m.ok THEN bad ELSE close(Range(n.n, m.n), m.pos)
             ELSE close(Exact(n.n), n.pos)

\* A faulty parse_brace_quantifier that does not restore the cursor when the
\* contents do not parse.
parse_brace_quantifier_no_rewind(cs, node, pos, gc) ==
    LET r == try_parse_brace_contents(cs, advance(cs, pos))
    IN  IF r.ok THEN POk(Quantifier(node, r.kind, r.greedy), r.pos, gc)
        ELSE POk(node, r.pos, gc)

\* parse_brace_quantifier, entered with the cursor on '{'.
parse_brace_quantifier(cs, node, pos, gc) ==
    LET save_pos == pos
        r == try_parse_brace_contents(cs, advance(cs, pos))
    IN  IF r.ok THEN POk(Quantifier(node, r.kind, r.greedy), r.pos, gc)
        ELSE POk(node, save_pos, gc)

parse_escape(cs, pos, gc) ==
    LET ch == peek(cs, pos + 1)
        p2 == pos + 2
    IN  CASE ch = EOF -> PErr("Unexpected end of pattern after '\\'", pos + 1, gc)
          [] ch = "d" -> POk(ShorthandClass("Digit"), p2, gc)
          [] ch = "D" -> POk(ShorthandClass("NonDigit"), p2, gc)
          [] ch = "w" -> POk(ShorthandClass("Word"), p2, gc)
          [] ch = "W" -> POk(ShorthandClass("NonWord"), p2, gc)
          [] ch = "s" -> POk(ShorthandClass("Space"), p2, gc)
          [] ch = "S" -> POk(ShorthandClass("NonSpace"), p2, gc)
          [] ch = "b" -> POk(Anchor("WordBoundary"), p2, gc)
          [] ch = "B" -> POk(Anchor("NonWordBoundary"), p2, gc)
          [] is_ascii_digit(ch) /\ ch # "0" -> POk(Backreference(Ord(ch) - 48), p2, gc)
          [] ch = "n" -> POk(Literal("\n"), p2, gc)
          [] ch = "r" -> POk(Literal("\r"), p2, gc)
          [] ch = "t" -> POk(Literal("\t"), p2, gc)
          [] OTHER -> POk(Literal(ch), p2, gc)

\* The item of an escape inside a character class.
class_escape_item(ch) ==
    CASE ch = "d" -> ItemShorthand("Digit")
      [] ch = "D" -> ItemShorthand("NonDigit")
      [] ch = "w" -> ItemShorthand("Word")
      [] ch = "W" -> ItemShorthand("NonWord")
      [] ch = "s" -> ItemShorthand("Space")
      [] ch = "S" -> ItemShorthand("NonSpace")
      [] ch = "n" -> ItemLiteral("\n")
      [] ch = "r" -> ItemLiteral("\r")
      [] ch = "t" -> ItemLiteral("\t")
      [] OTHER -> ItemLiteral(ch)

\* A faulty loop that takes a '-' before the closing ']' as a range.
class_loop_range_to_bracket(cs, items, negated, pos, gc) ==
    LET ch == peek(cs, pos)
    IN  CASE ch = "]" -> POk(CharClassNode(items, negated), pos + 1, gc)
          [] ch = EOF -> PErr("Unterminated character class", pos, gc)
          [] ch = "\\" ->
               IF peek(cs, pos + 1) = EOF
               THEN PErr("Unexpected end in character class escape", pos + 1, gc)
               ELSE class_loop(cs, Append(items, class_escape_item(peek(cs, pos + 1))),
                               negated, pos + 2, gc)
          [] OTHER ->
               IF peek(cs, pos + 1) = "-" /\ pos + 2 < Len(cs)
               THEN IF peek(cs, pos + 2) = "\\"
                    THEN IF peek(cs, pos + 3) = EOF
                         THEN PErr("Unexpected end in range", pos + 3, gc)
                         ELSE class_loop(cs, Append(items, ItemRange(ch, peek(cs, pos + 3))),
                                         negated, pos + 4, gc)
                    ELSE class_loop(cs, Append(items, ItemRange(ch, peek(cs, pos + 2))),
                                    negated, pos + 3, gc)
               ELSE class_loop(cs, Append(items, ItemLiteral(ch)), negated, pos + 1, gc)

\* The while loop of parse_char_class.
class_loop(cs, items, negated, pos, gc) ==
    LET ch == peek(cs, pos)
    IN  CASE ch = "]" -> POk(CharClassNode(items, negated), pos + 1, gc)
          [] ch = EOF -> PErr("Unterminated character class", pos, gc)
          [] ch = "\\" ->
               IF peek(cs, pos + 1) = EOF
               THEN PErr("Unexpected end in character class escape", pos + 1, gc)
               ELSE class_loop(cs, Append(items, class_escape_item(peek(cs, pos + 1))),
                               negated, pos + 2, gc)
          [] OTHER ->
               IF peek(cs, pos + 1) = "-" /\ pos + 2 < Len(cs) /\ cs[pos + 3] # "]"
               THEN IF peek(cs, pos + 2) = "\\"
                    THEN IF peek(cs, pos + 3) = EOF
                         THEN PErr("Unexpected end in range", pos + 3, gc)
                         ELSE class_loop(cs, Append(items, ItemRange(ch, peek(cs, pos + 3))),
                                         negated, pos + 4, gc)
                    ELSE class_loop(cs, Append(items, ItemRange(ch, peek(cs, pos + 2))),
                                    negated, pos + 3, gc)
               ELSE class_loop(cs, Append(items, ItemLiteral(ch)), negated, pos + 1, gc)

\* parse_char_class, entered with the cursor on '['.
parse_char_class(cs, pos, gc) ==
    LET negated == peek(cs, pos + 1) = "^"
        p1 == IF negated THEN pos + 2 ELSE pos + 1
    IN  IF peek(cs, p1) = "]"
        THEN class_loop(cs, <<ItemLiteral("]")>>, negated, p1 + 1, gc)
        ELSE class_loop(cs, <<>>, negated, p1, gc)

\* parse_group up to its call of parse_alternation: the arm taken (wrap),
\* the cursor and group_count at the call, and the index of a capturing group.
group_prefix(cs, pos, gc) ==
    LET p1 == pos + 1
        c == peek(cs, p1 + 1)
        d == peek(cs, p1 + 2)
        arm(wrap, p) == [ok |-> TRUE, wrap |-> wrap, pos |-> p, gc |-> gc, index |-> 0,
                         err |-> ""]
        bad(msg, p) == [ok |-> FALSE, wrap |-> "", pos |-> p, gc |-> gc, index |-> 0,
                        err |-> msg]
    IN  IF peek(cs, p1) = "?"
        THEN CASE c = ":" -> arm("NonCapturingGroup", p1 + 2)
               [] c = "=" -> arm("LookaheadPositive", p1 + 2)
               [] c = "!" -> arm("LookaheadNegative", p1 + 2)
               [] c = "<" ->
                    CASE d = "=" -> arm("LookbehindPositive", p1 + 3)
                      [] d = "!" -> arm("LookbehindNegative", p1 + 3)
                      [] OTHER -> bad("Invalid lookbehind syntax", p1 + 2)
               [] OTHER -> bad("Invalid group syntax after '(?'", p1 + 1)
        ELSE [ok |-> TRUE, wrap |-> "Group", pos |-> p1, gc |-> gc + 1, index |-> gc + 1,
              err |-> ""]

\* The node an arm of parse_group returns.
group_node(wrap, index, node) ==
    CASE wrap = "NonCapturingGroup" -> NonCapturingGroup(node)
      [] wrap = "LookaheadPositive" -> Lookahead(node, TRUE)
      [] wrap = "LookaheadNegative" -> Lookahead(node, FALSE)
      [] wrap = "LookbehindPositive" -> Lookbehind(node, TRUE)
      [] wrap = "LookbehindNegative" -> Lookbehind(node, FALSE)
      [] wrap = "Group" -> Group(index, node)

\* A faulty parse_group that counts every kind of group: the non-capturing
\* group and the lookarounds add one to group_count when they close.
group_close_counting_every_group(cs, g, r) ==
    IF ~r.ok THEN r
    ELSE IF peek(cs, r.pos) = ")"
         THEN POk(group_node(g.wrap, g.index, r.node), r.pos + 1,
                  IF g.wrap = "Group" THEN r.gc ELSE r.gc + 1)
    ELSE PErr("Expected ')'", advance(cs, r.pos), r.gc)

\* A faulty parse_group that reads the index when the group closes
\* (`index: self.group_count` after the body was parsed).
group_close_index_at_close(cs, g, r) ==
    IF ~r.ok THEN r
    ELSE IF peek(cs, r.pos) = ")" THEN POk(group_node(g.wrap, r.gc, r.node), r.pos + 1, r.gc)
    ELSE PErr("Expected ')'", advance(cs, r.pos), r.gc)

\* parse_group after `self.parse_alternation()` has returned r: the `?`,
\* expect(')')? and the node.
group_close(cs, g, r) ==
    IF ~r.ok THEN r
    ELSE IF peek(cs, r.pos) = ")" THEN POk(group_node(g.wrap, g.index, r.node), r.pos + 1, r.gc)
    ELSE PErr("Expected ')'", advance(cs, r.pos), r.gc)

group_body(cs, g) ==
    IF ~g.ok THEN PErr(g.err, g.pos, g.gc)
    ELSE group_close(cs, g, parse_alternation(cs, g.pos, g.gc))

\* parse_group, entered with the cursor on '('.
parse_group(cs, pos, gc) == group_body(cs, group_prefix(cs, pos, gc))

parse_atom(cs, pos, gc) ==
    LET ch == peek(cs, pos)
    IN  CASE ch = EOF -> PErr("Unexpected end of pattern", pos, gc)
          [] ch = "(" -> parse_group(cs, pos, gc)
          [] ch = "[" -> parse_char_class(cs, pos, gc)
          [] ch = "." -> POk(Dot, pos + 1, gc)
          [] ch = "^" -> POk(Anchor("Start"), pos + 1, gc)
          [] ch = "$" -> POk(Anchor("End"), pos + 1, gc)
          [] ch = "\\" -> parse_escape(cs, pos, gc)
          [] OTHER -> POk(Literal(ch), pos + 1, gc)

\* parse_quantified after `self.parse_atom()?` has returned r.
quantified_suffix(cs, r) ==
    LET ch == peek(cs, r.pos)
        kind == CASE ch = "*" -> Star [] ch = "+" -> Plus [] OTHER -> Question
    IN  IF ~r.ok THEN r
        ELSE CASE ch \in {"*", "+", "?"} ->
                    IF peek(cs, r.pos + 1) = "?"
                    THEN POk(Quantifier(r.node, kind, FALSE), r.pos + 2, r.gc)
                    ELSE POk(Quantifier(r.node, kind, TRUE), r.pos + 1, r.gc)
               [] ch = "{" -> parse_brace_quantifier(cs, r.node, r.pos, r.gc)
               [] OTHER -> r

parse_quantified(cs, pos, gc) == quantified_suffix(cs, parse_atom(cs, pos, gc))

\* parse_concat's while loop: the test of a turn, and the turn's
\* `nodes.push(self.parse_quantified()?)` with parse_quantified's result r.
concat_loop(cs, nodes, pos, gc) ==
    LET ch == peek(cs, pos)
    IN  IF ch = EOF \/ ch = ")" \/ ch = "|"
        THEN IF Len(nodes) = 1 THEN POk(nodes[1], pos, gc)
             ELSE POk(Concat(nodes), pos, gc)
        ELSE concat_next(cs, nodes, parse_quantified(cs, pos, gc))

concat_next(cs, nodes, r) ==
    IF ~r.ok THEN r ELSE concat_loop(cs, Append(nodes, r.node), r.pos, r.gc)

parse_concat(cs, pos, gc) == concat_loop(cs, <<>>, pos, gc)

\* parse_alternation after a `self.parse_concat()?` has returned r, with the
\* branches pushed before it.
alternation_loop(cs, branches, r) ==
    IF ~r.ok THEN r
    ELSE IF peek(cs, r.pos) = "|"
         THEN alternation_loop(cs, Append(branches, r.node), parse_concat(cs, r.pos + 1, r.gc))
    ELSE IF Len(branches) = 0 THEN r
    ELSE POk(Alternation(Append(branches, r.node)), r.pos, r.gc)

parse_alternation(cs, pos, gc) == alternation_loop(cs, <<>>, parse_concat(cs, pos, gc))

\* A faulty Parser::parse without the test for characters left over.
parse_end_ignores_rest(cs, r) == r

\* Parser::parse after parse_alternation has returned r.
parse_end(cs, r) ==
    IF ~r.ok THEN r
    ELSE IF r.pos < Len(cs) THEN PErr("Unexpected character", r.pos, r.gc)
    ELSE r

\* Parser::new(pattern) then Parser::parse(): the result and the parser's
\* fields after it.
parse(cs) == parse_end(cs, parse_alternation(cs, 0, 0))

(***************************************************************************)
(* compiler.rs: instructions and the compiler.  insts[pc + 1] is the       *)
(* instruction at program counter pc.                                      *)
(***************************************************************************)
IChar(c) == [op |-> "Char", ch |-> c]
IAnyChar == [op |-> "AnyChar"]
ICharClass(its, neg) == [op |-> "CharClass", ranges |-> its, negated |-> neg]
IShorthandClass(k) == [op |-> "ShorthandClass", kind |-> k]
IMatch == [op |-> "Match"]
IJump(t) == [op |-> "Jump", x |-> t]
ISplit(first, second) == [op |-> "Split", x |-> first, y |-> second]
ISave(slot) == [op |-> "Save", slot |-> slot]
IAssert(k) == [op |-> "Assert", kind |-> k]
IBackref(g) == [op |-> "Backref", group |-> g]
ILookaheadPositive(s, e) == [op |-> "LookaheadPositive", x |-> s, y |-> e]
ILookaheadNegative(s, e) == [op |-> "LookaheadNegative", x |-> s, y |-> e]
ILookbehindPositive(s, e) == [op |-> "LookbehindPositive", x |-> s, y |-> e]
ILookbehindNegative(s, e) == [op |-> "LookbehindNegative", x |-> s, y |-> e]
INop == [op |-> "Nop"]
\* Not an instruction: marks the place where emit_quantifier's `*m - *n`
\* underflows (Range(n, m) with m < n); compile does not return.
IOverflow == [op |-> "Overflow"]

\* insts[pc] = inst
Patch(insts, pc, inst) == [insts EXCEPT ![pc + 1] = inst]

RECURSIVE emit(_, _)
RECURSIVE emit_all(_, _, _)
RECURSIVE emit_times(_, _, _)
RECURSIVE emit_branches(_, _, _, _)
RECURSIVE patch_jumps(_, _, _, _)
RECURSIVE emit_quantifier(_, _, _, _)
RECURSIVE emit_optional(_, _, _, _)

\* for n in nodes { emit(insts, n) }, from nodes[i]
emit_all(insts, nodes, i) ==
    IF i > Len(nodes) THEN insts ELSE emit_all(emit(insts, nodes[i]), nodes, i + 1)

\* for _ in 0..n { emit(insts, sub) }
emit_times(insts, sub, n) ==
    IF n <= 0 THEN insts ELSE emit_times(emit(insts, sub), sub, n - 1)

\* for jpc in fixup_jumps { insts[jpc] = Jump(end) }
patch_jumps(insts, fixup_jumps, i, end) ==
    IF i > Len(fixup_jumps) THEN insts
    ELSE patch_jumps(Patch(insts, fixup_jumps[i], IJump(end)), fixup_jumps, i + 1, end)

\* emit's Alternation arm from branch i (1-based) on: the loop over the
\* first n - 1 branches, the last branch, the backpatching of the jumps.
emit_branches(insts, branches, i, fixup_jumps) ==
    IF i < Len(branches)
    THEN LET split_pc == Len(insts)
             i1 == Append(insts, INop)
             branch_start == Len(i1)
             i2 == emit(i1, branches[i])
             jump_pc == Len(i2)
             i3 == Append(i2, INop)
             next_branch == Len(i3)
         IN  emit_branches(Patch(i3, split_pc, ISplit(branch_start, next_branch)),
                           branches, i + 1, Append(fixup_jumps, jump_pc))
    ELSE LET i4 == emit(insts, branches[i])
         IN  patch_jumps(i4, fixup_jumps, 1, Len(i4))

\* A faulty Star arm with the two Splits exchanged: greedy leaves the loop
\* first, lazy enters it first.
emit_star_swapped(insts, sub, greedy) ==
    LET l1 == Len(insts)
        i1 == Append(insts, INop)
        l2 == Len(i1)
        i2 == Append(emit(i1, sub), IJump(l1))
        l3 == Len(i2)
    IN  IF greedy THEN Patch(i2, l1, ISplit(l3, l2)) ELSE Patch(i2, l1, ISplit(l2, l3))

\* emit_quantifier's Star arm.
emit_star(insts, sub, greedy) ==
    LET l1 == Len(insts)
        i1 == Append(insts, INop)
        l2 == Len(i1)
        i2 == Append(emit(i1, sub), IJump(l1))
        l3 == Len(i2)
    IN  IF greedy THEN Patch(i2, l1, ISplit(l2, l3)) ELSE Patch(i2, l1, ISplit(l3, l2))

\* A faulty Plus arm whose exit target is one too far
\* (`let l2 = insts.len() + 2`).
emit_plus_exit_too_far(insts, sub, greedy) ==
    LET l1 == Len(insts)
        i1 == emit(insts, sub)
        l2 == Len(i1) + 2
    IN  IF greedy THEN Append(i1, ISplit(l1, l2)) ELSE Append(i1, ISplit(l2, l1))

\* emit_quantifier's Plus arm.
emit_plus(insts, sub, greedy) ==
    LET l1 == Len(insts)
        i1 == emit(insts, sub)
        l2 == Len(i1) + 1
    IN  IF greedy THEN Append(i1, ISplit(l1, l2)) ELSE Append(i1, ISplit(l2, l1))

\* emit_quantifier's Question arm.
emit_question(insts, sub, greedy) ==
    LET split_pc == Len(insts)
        i1 == Append(insts, INop)
        l1 == Len(i1)
        i2 == emit(i1, sub)
        l2 == Len(i2)
    IN  IF greedy THEN Patch(i2, split_pc, ISplit(l1, l2))
        ELSE Patch(i2, split_pc, ISplit(l2, l1))

\* A faulty loop with an inclusive range, `for _ in 0..=k`: one optional
\* copy too many.
emit_optional_inclusive(insts, sub, greedy, k) ==
    IF k < 0 THEN insts
    ELSE emit_optional(emit_question(insts, sub, greedy), sub, greedy, k - 1)

\* for _ in 0..k { emit_quantifier(insts, sub, &Question, greedy) }
emit_optional(insts, sub, greedy, k) ==
    IF k <= 0 THEN insts
    ELSE emit_optional(emit_question(insts, sub, greedy), sub, greedy, k - 1)

\* A faulty emit_quantifier whose AtLeast arm ends with a plus loop (one
\* repetition more than n at least).
emit_quantifier_at_least_plus(insts, sub, kind, greedy) ==
    CASE kind.k = "Star" -> emit_star(insts, sub, greedy)
      [] kind.k = "Plus" -> emit_plus(insts, sub, greedy)
      [] kind.k = "Question" -> emit_question(insts, sub, greedy)
      [] kind.k = "Exact" -> emit_times(insts, sub, kind.n)
      [] kind.k = "AtLeast" -> emit_plus(emit_times(insts, sub, kind.n), sub, greedy)
      [] kind.k = "Range" ->
           LET i1 == emit_times(insts, sub, kind.n)
           IN  IF kind.m < kind.n THEN Append(i1, IOverflow)
               ELSE emit_optional(i1, sub, greedy, kind.m - kind.n)

emit_quantifier(insts, sub, kind, greedy) ==
    CASE kind.k = "Star" -> emit_star(insts, sub, greedy)
      [] kind.k = "Plus" -> emit_plus(insts, sub, greedy)
      [] kind.k = "Question" -> emit_question(insts, sub, greedy)
      [] kind.k = "Exact" -> emit_times(insts, sub, kind.n)
      [] kind.k = "AtLeast" -> emit_star(emit_times(insts, sub, kind.n), sub, greedy)
      [] kind.k = "Range" ->
           LET i1 == emit_times(insts, sub, kind.n)
           IN  IF kind.m < kind.n THEN Append(i1, IOverflow)
               ELSE emit_optional(i1, sub, greedy, kind.m - kind.n)

\* emit's Lookahead and Lookbehind arms up to the patch of the placeholder:
\* Nop, the sub-program, Match.
emit_look(insts, sub) == Append(emit(Append(insts, INop), sub), IMatch)

emit(insts, node) ==
    CASE node.t = "Literal" -> Append(insts, IChar(node.ch))
      [] node.t = "Dot" -> Append(insts, IAnyChar)
      [] node.t = "Concat" -> emit_all(insts, node.nodes, 1)
      [] node.t = "Alternation" ->
           IF Len(node.nodes) = 0 THEN insts
           ELSE IF Len(node.nodes) = 1 THEN emit(insts, node.nodes[1])
           ELSE emit_branches(insts, node.nodes, 1, <<>>)
      [] node.t = "Quantifier" -> emit_quantifier(insts, node.node, node.kind, node.greedy)
      [] node.t = "CharClass" -> Append(insts, ICharClass(node.ranges, node.negated))
      [] node.t = "ShorthandClass" -> Append(insts, IShorthandClass(node.kind))
      [] node.t = "Anchor" -> Append(insts, IAssert(node.kind))
      [] node.t = "Group" ->
           Append(emit(Append(insts, ISave(node.index * 2)), node.node),
                  ISave(node.index * 2 + 1))
      [] node.t = "NonCapturingGroup" -> emit(insts, node.node)
      [] node.t = "Backreference" -> Append(insts, IBackref(node.index))
      [] node.t = "Lookahead" ->
           LET la_pc == Len(insts)
               sub_start == Len(insts) + 1
               i1 == emit_look(insts, node.node)
               sub_end == Len(i1)
           IN  IF node.positive
               THEN Patch(i1, la_pc, ILookaheadPositive(sub_start, sub_end))
               ELSE Patch(i1, la_pc, ILookaheadNegative(sub_start, sub_end))
      [] node.t = "Lookbehind" ->
           LET lb_pc == Len(insts)
               sub_start == Len(insts) + 1
               i1 == emit_look(insts, node.node)
               sub_end == Len(i1)
           IN  IF node.positive
               THEN Patch(i1, lb_pc, ILookbehindPositive(sub_start, sub_end))
               ELSE Patch(i1, lb_pc, ILookbehindNegative(sub_start, sub_end))

\* A faulty extract_first_char that looks past the instructions that are not
\* a Char and returns the first literal of the program.
RECURSIVE first_char_from(_, _)
first_char_from(insts, i) ==
    IF i > Len(insts) THEN EOF
    ELSE IF insts[i].op = "Char" THEN insts[i].ch
    ELSE first_char_from(insts, i + 1)

extract_first_char_past_others(insts) == first_char_from(insts, 1)

\* Option<char>: EOF is None.
extract_first_char(insts) ==
    IF Len(insts) = 0 THEN EOF
    ELSE IF insts[1].op = "Char" THEN insts[1].ch
    ELSE IF insts[1].op = "Assert" /\ insts[1].kind = "Start"
         THEN IF Len(insts) >= 2 /\ insts[2].op = "Char" THEN insts[2].ch ELSE EOF
    ELSE EOF

\* compile: the Program, and whether compile returned at all.
compile(ast, n_groups) ==
    LET insts == Append(emit(<<>>, ast), IMatch)
    IN  [insts |-> insts,
         n_groups |-> n_groups,
         first_char |-> extract_first_char(insts),
         anchored_start |-> insts[1].op = "Assert" /\ insts[1].kind = "Start",
         overflow |-> \E i \in 1..Len(insts) : insts[i].op = "Overflow"]

(***************************************************************************)
(* vm.rs: the character predicates.                                        *)
(***************************************************************************)
is_word_char(c) == is_ascii_alphanumeric(c) \/ c = "_"

shorthand_matches(ch, kind) ==
    CASE kind = "Digit" -> is_ascii_digit(ch)
      [] kind = "NonDigit" -> ~is_ascii_digit(ch)
      [] kind = "Word" -> is_ascii_alphanumeric(ch) \/ ch = "_"
      [] kind = "NonWord" -> ~(is_ascii_alphanumeric(ch) \/ ch = "_")
      [] kind = "Space" -> is_ascii_whitespace(ch)
      [] kind = "NonSpace" -> ~is_ascii_whitespace(ch)

class_item_matches(ch, item) ==
    CASE item.i = "Literal" -> ch = item.ch
      [] item.i = "Range" -> Ord(ch) >= Ord(item.lo) /\ Ord(ch) <= Ord(item.hi)
      [] item.i = "Shorthand" -> shorthand_matches(ch, item.kind)

char_class_matches(ch, items, negated) ==
    LET matched == \E k \in 1..Len(items) : class_item_matches(ch, items[k])
    IN  IF negated THEN ~matched ELSE matched

is_word_boundary(chars, pos) ==
    LET before == IF pos > 0 THEN is_word_char(chars[pos]) ELSE FALSE
        after == IF pos < Len(chars) THEN is_word_char(chars[pos + 1]) ELSE FALSE
    IN  before # after

(***************************************************************************)
(* vm.rs: search and exec as a machine.  A state v of the machine holds    *)
(*   st      where control is: "start" (search's loop over start           *)
(*           positions), "run" (the innermost exec activation runs), "ret" *)
(*           (an activation has returned v.ret to its caller), "matched"   *)
(*           and "nomatch" (search has returned Some / None), "panic"      *)
(*   start   search's loop variable                                        *)
(*   frames  the exec activations, innermost last                          *)
(*   ctxs    the (captures, undo_log) pairs exec's references point to,    *)
(*           innermost last: search's pair, then one pair (sub_captures,   *)
(*           sub_undo) per lookaround being evaluated                      *)
(*   ret     the value the last activation returned                        *)
(*   why     the panic's message                                           *)
(* A frame holds exec's locals (pc, pos, depth) and where the activation   *)
(* is: pp = "entry" (before the depth test), "loop" (at the head of the    *)
(* loop), "split" (inside Split's recursive call), "restored" (after       *)
(* Split's pop-back-to-mark loop), "la" / "lb" (inside a lookahead's /     *)
(* lookbehind's exec_sub call); with Split's undo_mark, the lookbehind's   *)
(* loop variable lookback, and exec_sub's old_cap1.  snap, popped and      *)
(* writes are history fields: the captures when undo_mark was taken, the   *)
(* number of entries the pop-back-to-mark loop popped, and the capture     *)
(* slots the activation has assigned, in order (with those of the calls    *)
(* that returned true to it).  depth_exceeded and ret_writes are history   *)
(* fields of the machine: whether an activation was refused for its depth, *)
(* and the writes of the activation that returned last (none if it         *)
(* returned false).                                                        *)
(***************************************************************************)
Frame(pc, pos, depth) ==
    [pc |-> pc, pos |-> pos, depth |-> depth, pp |-> "entry", undo_mark |-> 0,
     lookback |-> 0, old_cap1 |-> None, snap |-> <<>>, popped |-> 0, writes |-> <<>>]

VM0 == [st |-> "start", start |-> 0, frames |-> <<>>, ctxs |-> <<>>,
        ret |-> FALSE, why |-> "", depth_exceeded |-> FALSE, ret_writes |-> <<>>]

\* A faulty n_slots without the pair of the overall match.
n_slots_groups_only(prog) == prog.n_groups * 2
n_slots(prog) == (prog.n_groups + 1) * 2
InstAt(prog, pc) == prog.insts[pc + 1]
Top(v) == v.frames[Len(v.frames)]
Ctx(v) == v.ctxs[Len(v.ctxs)]
DropLast(seq) == SubSeq(seq, 1, Len(seq) - 1)
SetTop(v, f) == [v EXCEPT !.frames[Len(v.frames)] = f]
SetCtx(v, caps, undo) ==
    [v EXCEPT !.ctxs[Len(v.ctxs)] = [captures |-> caps, undo_log |-> undo]]

\* `return b` of the innermost activation.
Return(v, b) ==
    [v EXCEPT !.frames = DropLast(v.frames), !.st = "ret", !.ret = b,
              !.ret_writes = IF b THEN Top(v).writes ELSE <<>>]
\* History: the innermost activation has assigned the slots of ws.
Wrote(v, ws) == SetTop(v, [Top(v) EXCEPT !.writes = @ \o ws])
\* exec(program, chars, pos, pc, captures, undo_log, depth) is entered.
Call(v, pc, pos, depth) ==
    [v EXCEPT !.frames = Append(v.frames, Frame(pc, pos, depth)), !.st = "run"]
Panic(v, why) == [v EXCEPT !.st = "panic", !.why = why]
\* pc and pos of the innermost activation are assigned; the loop goes on.
Goto(v, pc, pos) == SetTop(v, [Top(v) EXCEPT !.pc = pc, !.pos = pos, !.pp = "loop"])

\* vec![None; n_slots] with captures[0] = Some(start)
fresh_captures(prog, start) ==
    [i \in 1..n_slots(prog) |-> IF i = 1 THEN start ELSE None]

\* search: one turn of `for start in 0..=chars.len()` up to the call of exec
\* (or the single attempt of an anchored program).
search_start(prog, chars, v) ==
    LET call == Call([v EXCEPT !.ctxs = <<[captures |-> fresh_captures(prog, v.start),
                                            undo_log |-> <<>>]>>],
                     0, v.start, 0)
    IN  IF prog.anchored_start THEN call
        ELSE IF v.start > Len(chars) THEN [v EXCEPT !.st = "nomatch"]
        ELSE IF prog.first_char # EOF
                /\ (IF v.start < Len(chars) THEN chars[v.start + 1] # prog.first_char
                    ELSE TRUE)
             THEN [v EXCEPT !.start = v.start + 1]
        ELSE call

\* search: exec has returned v.ret to it.
search_return(prog, chars, v) ==
    LET caps == Ctx(v).captures
    IN  IF v.ret
        THEN [v EXCEPT !.st = "matched",
                       !.ctxs[1].captures[2] = IF caps[2] = None THEN v.start ELSE caps[2]]
        ELSE IF prog.anchored_start THEN [v EXCEPT !.st = "nomatch", !.ctxs = <<>>]
        ELSE [v EXCEPT !.st = "start", !.start = v.start + 1, !.ctxs = <<>>]

\* A faulty depth test that lets one more level of recursion in.
exec_entry_one_deeper(v) ==
    IF Top(v).depth > MAX_DEPTH + 1 THEN Return([v EXCEPT !.depth_exceeded = TRUE], FALSE)
    ELSE SetTop(v, [Top(v) EXCEPT !.pp = "loop"])

\* exec: `if depth > MAX_DEPTH { return false; }`
exec_entry(v) ==
    IF Top(v).depth > MAX_DEPTH THEN Return([v EXCEPT !.depth_exceeded = TRUE], FALSE)
    ELSE SetTop(v, [Top(v) EXCEPT !.pp = "loop"])

\* exec: `if pc >= program.insts.len() { return false; }`
exec_end_of_program(v) == Return(v, FALSE)

exec_match(v) ==
    Return(SetCtx(v, [Ctx(v).captures EXCEPT ![2] = Top(v).pos], Ctx(v).undo_log), TRUE)

\* The arms Char, AnyChar, CharClass, ShorthandClass.
consumes(inst, ch) ==
    CASE inst.op = "Char" -> ch = inst.ch
      [] inst.op = "AnyChar" -> ch # "\n"
      [] inst.op = "CharClass" -> char_class_matches(ch, inst.ranges, inst.negated)
      [] inst.op = "ShorthandClass" -> shorthand_matches(ch, inst.kind)

exec_consume(inst, chars, v) ==
    LET f == Top(v)
    IN  IF f.pos < Len(chars) /\ consumes(inst, chars[f.pos + 1])
        THEN Goto(v, f.pc + 1, f.pos + 1)
        ELSE Return(v, FALSE)

exec_jump(inst, v) == Goto(v, inst.x, Top(v).pos)

\* A faulty Split that calls exec on its second target first.
exec_split_second_first(inst, v) ==
    LET f == Top(v)
    IN  Call(SetTop(v, [f EXCEPT !.pp = "split",
                                 !.undo_mark = Len(Ctx(v).undo_log),
                                 !.snap = Ctx(v).captures]),
             inst.y, f.pos, f.depth + 1)

\* Split: the mark and the recursive call on the first target.
exec_split(inst, v) ==
    LET f == Top(v)
    IN  Call(SetTop(v, [f EXCEPT !.pp = "split",
                                 !.undo_mark = Len(Ctx(v).undo_log),
                                 !.snap = Ctx(v).captures]),
             inst.x, f.pos, f.depth + 1)

\* A faulty pop-back-to-mark loop that truncates the log and leaves the
\* slots as the failed branch wrote them.
restore_keeps_captures(caps, undo, undo_mark) ==
    [captures |-> caps,
     undo_log |-> IF Len(undo) > undo_mark THEN SubSeq(undo, 1, undo_mark) ELSE undo]

\* while undo_log.len() > undo_mark { captures[slot] = old_val }
RECURSIVE restore(_, _, _)
restore(caps, undo, undo_mark) ==
    IF Len(undo) > undo_mark
    THEN LET e == undo[Len(undo)]
         IN  restore([caps EXCEPT ![e.slot + 1] = e.old_val], DropLast(undo), undo_mark)
    ELSE [captures |-> caps, undo_log |-> undo]

\* A faulty Split without the pop-back-to-mark loop.
exec_split_return_no_restore(v) ==
    IF v.ret THEN Return(Wrote(v, v.ret_writes), TRUE)
    ELSE [SetTop(v, [Top(v) EXCEPT !.pp = "restored"]) EXCEPT !.st = "run"]

\* Split: the recursive call has returned v.ret.
exec_split_return(v) ==
    LET f == Top(v)
        r == restore(Ctx(v).captures, Ctx(v).undo_log, f.undo_mark)
    IN  IF v.ret THEN Return(Wrote(v, v.ret_writes), TRUE)
        ELSE [SetTop(SetCtx(v, r.captures, r.undo_log),
                     [f EXCEPT !.pp = "restored",
                               !.popped = Len(Ctx(v).undo_log) - Len(r.undo_log)])
              EXCEPT !.st = "run"]

\* Split: `pc = second`
exec_split_second(inst, v) ==
    SetTop(v, [Top(v) EXCEPT !.pc = inst.y, !.pp = "loop", !.snap = <<>>, !.popped = 0])

\* A faulty Save that writes the slot and logs nothing.
exec_save_no_undo(prog, inst, v) ==
    LET f == Top(v)
        caps == Ctx(v).captures
    IN  IF inst.slot >= n_slots(prog) THEN Panic(v, "index out of bounds: Save")
        ELSE Goto(SetCtx(v, [caps EXCEPT ![inst.slot + 1] = f.pos], Ctx(v).undo_log),
                  f.pc + 1, f.pos)

exec_save(prog, inst, v) ==
    LET f == Top(v)
        caps == Ctx(v).captures
    IN  IF inst.slot >= n_slots(prog) THEN Panic(v, "index out of bounds: Save")
        ELSE Goto(Wrote(SetCtx(v, [caps EXCEPT ![inst.slot + 1] = f.pos],
                               Append(Ctx(v).undo_log,
                                      [slot |-> inst.slot, old_val |-> caps[inst.slot + 1]])),
                        <<[slot |-> inst.slot, val |-> f.pos]>>),
                  f.pc + 1, f.pos)

\* The arms AssertStart, AssertEnd, AssertWordBoundary, AssertNonWordBoundary.
assertion_holds(inst, chars, pos) ==
    CASE inst.kind = "Start" -> pos = 0
      [] inst.kind = "End" -> pos = Len(chars)
      [] inst.kind = "WordBoundary" -> is_word_boundary(chars, pos)
      [] inst.kind = "NonWordBoundary" -> ~is_word_boundary(chars, pos)

exec_assert(inst, chars, v) ==
    IF assertion_holds(inst, chars, Top(v).pos) THEN Goto(v, Top(v).pc + 1, Top(v).pos)
    ELSE Return(v, FALSE)

\* chars[gs..ge] == chars[pos..pos + group_len]
same_text(chars, gs, pos, group_len) ==
    \A k \in 1..group_len : chars[gs + k] = chars[pos + k]

\* Backref with both slots set and ge < gs: `ge - gs` underflows.  A build
\* with overflow checks panics there.  A build without them wraps, and
\* `pos + group_len <= chars.len()` is then true iff the sum wraps again
\* (pos >= gs - ge), in which case chars[gs..ge] panics; otherwise the arm
\* returns false.
backref_underflows(prog, inst, v) ==
    /\ inst.group * 2 < n_slots(prog)
    /\ Ctx(v).captures[inst.group * 2 + 1] # None
    /\ Ctx(v).captures[inst.group * 2 + 2] # None
    /\ Ctx(v).captures[inst.group * 2 + 2] < Ctx(v).captures[inst.group * 2 + 1]

backref_wraps_to_false(prog, inst, v) ==
    /\ backref_underflows(prog, inst, v)
    /\ Top(v).pos < Ctx(v).captures[inst.group * 2 + 1] - Ctx(v).captures[inst.group * 2 + 2]

\* A faulty Backref that advances one character too far
\* (`pos += group_len + 1`).
exec_backref_one_too_far(prog, inst, chars, v) ==
    LET f == Top(v)
        caps == Ctx(v).captures
        gs == caps[inst.group * 2 + 1]
        ge == caps[inst.group * 2 + 2]
    IN  IF inst.group * 2 >= n_slots(prog)
        THEN Panic(v, "index out of bounds: Backref")
        ELSE IF gs = None \/ ge = None THEN Return(v, FALSE)
        ELSE IF ge < gs THEN Panic(v, "Backref: group end before group start")
        ELSE IF f.pos + (ge - gs) <= Len(chars) /\ same_text(chars, gs, f.pos, ge - gs)
             THEN Goto(v, f.pc + 1, f.pos + (ge - gs) + 1)
        ELSE Return(v, FALSE)

exec_backref(prog, inst, chars, v) ==
    LET f == Top(v)
        caps == Ctx(v).captures
        start_slot == inst.group * 2
        end_slot == inst.group * 2 + 1
        gs == caps[start_slot + 1]
        ge == caps[end_slot + 1]
    IN  IF start_slot >= n_slots(prog)
        THEN Panic(v, "index out of bounds: Backref")
        ELSE IF gs = None \/ ge = None THEN Return(v, FALSE)
        ELSE IF ge < gs THEN Panic(v, "Backref: group end before group start")
        ELSE IF f.pos + (ge - gs) <= Len(chars) /\ same_text(chars, gs, f.pos, ge - gs)
             THEN Goto(v, f.pc + 1, f.pos + (ge - gs))
        ELSE Return(v, FALSE)

\* sub_captures = captures.to_vec(), sub_undo = Vec::new(), and exec_sub up
\* to its call of exec: old_cap1 = captures[1]; captures[1] = None.
call_exec_sub(v, pp, lookback, try_pos, sub_start) ==
    LET f == Top(v)
        caps == Ctx(v).captures
        v1 == SetTop(v, [f EXCEPT !.pp = pp, !.lookback = lookback, !.old_cap1 = caps[2]])
        v2 == [v1 EXCEPT !.ctxs = Append(v1.ctxs, [captures |-> [caps EXCEPT ![2] = None],
                                                   undo_log |-> <<>>])]
    IN  Call(v2, sub_start, try_pos, f.depth + 1)

\* exec_sub after its call of exec: the sub_captures it leaves.
sub_captures_after(v) ==
    IF v.ret THEN Ctx(v).captures
    ELSE [Ctx(v).captures EXCEPT ![2] = Top(v).old_cap1]

\* A faulty propagation loop that assigns the slots and pushes nothing on
\* the undo log.
propagate_unlogged(caps, undo, sub_captures, i) ==
    [captures |-> [k \in 1..Len(caps) |-> IF k > i THEN sub_captures[k] ELSE caps[k]],
     undo_log |-> undo]

\* for i in 2..captures.len() { if sub_captures[i] != captures[i] { ... } }
RECURSIVE propagate(_, _, _, _)
propagate(caps, undo, sub_captures, i) ==
    IF i >= Len(caps) THEN [captures |-> caps, undo_log |-> undo]
    ELSE IF sub_captures[i + 1] # caps[i + 1]
         THEN propagate([caps EXCEPT ![i + 1] = sub_captures[i + 1]],
                        Append(undo, [slot |-> i, old_val |-> caps[i + 1]]),
                        sub_captures, i + 1)
         ELSE propagate(caps, undo, sub_captures, i + 1)

\* History: the slots the propagation loop assigns, with their new values.
propagated_writes(caps, sub_captures) ==
    LET all == [i \in 1..Len(caps) |-> [slot |-> i - 1, val |-> sub_captures[i]]]
        assigned(w) == w.slot >= 2 /\ w.val # caps[w.slot + 1]
    IN  SelectSeq(all, assigned)

\* The enclosing (captures, undo_log) are current again: sub_captures and
\* sub_undo go out of scope.
leave_sub(v) == [v EXCEPT !.ctxs = DropLast(v.ctxs), !.st = "run"]

exec_lookahead(inst, v) == call_exec_sub(v, "la", 0, Top(v).pos, inst.x)

\* A faulty lookahead whose propagation loop starts at slot 1
\* (`for i in 1..captures.len()`).
exec_lookahead_return_from_slot_1(inst, v) ==
    LET sub == sub_captures_after(v)
        out == leave_sub(v)
        p == propagate(Ctx(out).captures, Ctx(out).undo_log, sub, 1)
    IN  IF inst.op = "LookaheadPositive"
        THEN IF v.ret THEN Goto(SetCtx(out, p.captures, p.undo_log), inst.y, Top(v).pos)
             ELSE Return(out, FALSE)
        ELSE IF ~v.ret THEN Goto(out, inst.y, Top(v).pos)
             ELSE Return(out, FALSE)

\* LookaheadPositive / LookaheadNegative: exec_sub has returned v.ret.
exec_lookahead_return(inst, v) ==
    LET sub == sub_captures_after(v)
        out == leave_sub(v)
        p == propagate(Ctx(out).captures, Ctx(out).undo_log, sub, 2)
        ws == propagated_writes(Ctx(out).captures, sub)
    IN  IF inst.op = "LookaheadPositive"
        THEN IF v.ret THEN Goto(Wrote(SetCtx(out, p.captures, p.undo_log), ws),
                                inst.y, Top(v).pos)
             ELSE Return(out, FALSE)
        ELSE IF ~v.ret THEN Goto(out, inst.y, Top(v).pos)
             ELSE Return(out, FALSE)

\* LookbehindPositive / LookbehindNegative: the first turn of
\* `for lookback in 0..=pos`.
exec_lookbehind(inst, v) == call_exec_sub(v, "lb", 0, Top(v).pos, inst.x)

\* A faulty lookbehind whose negative form, when it continues, propagates
\* what the last turn's sub-program left in its copy.
exec_lookbehind_return_leaking(inst, v) ==
    LET f == Top(v)
        sub == sub_captures_after(v)
        out == leave_sub(v)
        p == propagate(Ctx(out).captures, Ctx(out).undo_log, sub, 2)
        found == v.ret /\ sub[2] = f.pos
        positive == inst.op = "LookbehindPositive"
    IN  IF found
        THEN IF positive THEN Goto(SetCtx(out, p.captures, p.undo_log), inst.y, f.pos)
             ELSE Return(out, FALSE)
        ELSE IF f.lookback + 1 <= f.pos
             THEN call_exec_sub(out, "lb", f.lookback + 1, f.pos - (f.lookback + 1), inst.x)
        ELSE IF positive THEN Return(out, FALSE)
        ELSE Goto(SetCtx(out, p.captures, p.undo_log), inst.y, f.pos)

\* LookbehindPositive / LookbehindNegative: exec_sub has returned v.ret in
\* the turn f.lookback of the loop; the rest of the turn, then the next turn
\* or the code after the loop.
exec_lookbehind_return(inst, v) ==
    LET f == Top(v)
        sub == sub_captures_after(v)
        out == leave_sub(v)
        p == propagate(Ctx(out).captures, Ctx(out).undo_log, sub, 2)
        ws == propagated_writes(Ctx(out).captures, sub)
        found == v.ret /\ sub[2] = f.pos
        positive == inst.op = "LookbehindPositive"
    IN  IF found
        THEN IF positive THEN Goto(Wrote(SetCtx(out, p.captures, p.undo_log), ws),
                                   inst.y, f.pos)
             ELSE Return(out, FALSE)
        ELSE IF f.lookback + 1 <= f.pos
             THEN call_exec_sub(out, "lb", f.lookback + 1, f.pos - (f.lookback + 1), inst.x)
        ELSE IF positive THEN Return(out, FALSE)
        ELSE Goto(out, inst.y, f.pos)

exec_nop(v) == Goto(v, Top(v).pc + 1, Top(v).pos)

(***************************************************************************)
(* One step of the machine, and the machine run to the end.                *)
(***************************************************************************)
Cur(prog, v) == InstAt(prog, Top(v).pc)

\* The kind of the step the machine takes next: which part of search or
\* exec runs.
StepKind(prog, v) ==
    CASE v.st \in {"matched", "nomatch", "panic"} -> "none"
      [] v.st = "start" -> "search_start"
      [] v.st = "ret" /\ Len(v.frames) = 0 -> "search_return"
      [] v.st = "ret" /\ Top(v).pp = "split" -> "split_return"
      [] v.st = "ret" /\ Top(v).pp = "la" -> "lookahead_return"
      [] v.st = "ret" /\ Top(v).pp = "lb" -> "lookbehind_return"
      [] v.st = "run" /\ Top(v).pp = "entry" -> "entry"
      [] v.st = "run" /\ Top(v).pp = "restored" -> "split_second"
      [] v.st = "run" /\ Top(v).pp = "loop" ->
           IF Top(v).pc >= Len(prog.insts) THEN "match"
           ELSE CASE Cur(prog, v).op \in {"Char", "AnyChar", "CharClass", "ShorthandClass"}
                       -> "consume"
                  [] Cur(prog, v).op = "Match" -> "match"
                  [] Cur(prog, v).op \in {"Jump", "Nop"} -> "jump"
                  [] Cur(prog, v).op = "Split" -> "split"
                  [] Cur(prog, v).op = "Save" -> "save"
                  [] Cur(prog, v).op = "Assert" -> "assert"
                  [] Cur(prog, v).op = "Backref" -> "backref"
                  [] Cur(prog, v).op \in {"LookaheadPositive", "LookaheadNegative"}
                       -> "lookahead"
                  [] Cur(prog, v).op \in {"LookbehindPositive", "LookbehindNegative"}
                       -> "lookbehind"

Step(prog, chars, v) ==
    LET k == StepKind(prog, v)
    IN  CASE k = "search_start" -> search_start(prog, chars, v)
          [] k = "search_return" -> search_return(prog, chars, v)
          [] k = "entry" -> exec_entry(v)
          [] k = "match" -> IF Top(v).pc >= Len(prog.insts) THEN exec_end_of_program(v)
                            ELSE exec_match(v)
          [] k = "consume" -> exec_consume(Cur(prog, v), chars, v)
          [] k = "jump" -> IF Cur(prog, v).op = "Jump" THEN exec_jump(Cur(prog, v), v)
                           ELSE exec_nop(v)
          [] k = "split" -> exec_split(Cur(prog, v), v)
          [] k = "split_return" -> exec_split_return(v)
          [] k = "split_second" -> exec_split_second(Cur(prog, v), v)
          [] k = "save" -> exec_save(prog, Cur(prog, v), v)
          [] k = "assert" -> exec_assert(Cur(prog, v), chars, v)
          [] k = "backref" -> exec_backref(prog, Cur(prog, v), chars, v)
          [] k = "lookahead" -> exec_lookahead(Cur(prog, v), v)
          [] k = "lookahead_return" -> exec_lookahead_return(Cur(prog, v), v)
          [] k = "lookbehind" -> exec_lookbehind(Cur(prog, v), v)
          [] k = "lookbehind_return" -> exec_lookbehind_return(Cur(prog, v), v)
          [] OTHER -> v

(***************************************************************************)
(* The patterns and inputs the model runs.                                 *)
(***************************************************************************)
Sigma == {"a", "b"}

RECURSIVE StringsUpTo(_)
StringsUpTo(n) ==
    IF n = 0 THEN {<<>>}
    ELSE LET shorter == StringsUpTo(n - 1)
         IN  shorter \cup {Append(w, c) : w \in {x \in shorter : Len(x) = n - 1}, c \in Sigma}

Inputs == StringsUpTo(MaxLen)

Patterns == {
    \* a(b+)
    <<"a", "(", "b", "+", ")">>,
    \* a|ab
    <<"a", "|", "a", "b">>,
    \* (ab)b|a
    <<"(", "a", "b", ")", "b", "|", "a">>,
    \* (a)|a(b)
    <<"(", "a", ")", "|", "a", "(", "b", ")">>,
    \* (?:a|ab)*
    <<"(", "?", ":", "a", "|", "a", "b", ")", "*">>,
    \* (?<=a|ab)$
    <<"(", "?", "<", "=", "a", "|", "a", "b", ")", "$">>,
    \* (?<!a|ab)$
    <<"(", "?", "<", "!", "a", "|", "a", "b", ")", "$">>,
    \* (?<=a*)a
    <<"(", "?", "<", "=", "a", "*", ")", "a">>,
    \* (?:a?)+?b
    <<"(", "?", ":", "a", "?", ")", "+", "?", "b">>,
    \* \1
    <<"\\", "1">>,
    \* \1(a)
    <<"\\", "1", "(", "a", ")">>,
    \* (a)\1
    <<"(", "a", ")", "\\", "1">>,
    \* (?:((?<!^\1))b)+
    <<"(", "?", ":", "(", "(", "?", "<", "!", "^", "\\", "1", ")", ")", "b", ")", "+">>,
    \* (?:(\1?)b)+
    <<"(", "?", ":", "(", "\\", "1", "?", ")", "b", ")", "+">>,
    \* (?=(a))
    <<"(", "?", "=", "(", "a", ")", ")">>,
    \* (?<=(a))b
    <<"(", "?", "<", "=", "(", "a", ")", ")", "b">>,
    \* (?=(a*))\1b
    <<"(", "?", "=", "(", "a", "*", ")", ")", "\\", "1", "b">>,
    \* (?:(?=(a))b|a(b))
    <<"(", "?", ":", "(", "?", "=", "(", "a", ")", ")", "b", "|", "a", "(", "b", ")", ")">>,
    \* (?!a).
    <<"(", "?", "!", "a", ")", ".">>,
    \* (?!(a)b)a
    <<"(", "?", "!", "(", "a", ")", "b", ")", "a">>,
    \* (?<!(a))b
    <<"(", "?", "<", "!", "(", "a", ")", ")", "b">>,
    \* a*
    <<"a", "*">>,
    \* ^a*b
    <<"^", "a", "*", "b">>,
    \* a*?b
    <<"a", "*", "?", "b">>,
    \* a+?
    <<"a", "+", "?">>,
    \* a??b
    <<"a", "?", "?", "b">>,
    \* a{1,2}
    <<"a", "{", "1", ",", "2", "}">>,
    \* a{2,}b
    <<"a", "{", "2", ",", "}", "b">>,
    \* a{1,2}?b
    <<"a", "{", "1", ",", "2", "}", "?", "b">>,
    \* a{1,2}a
    <<"a", "{", "1", ",", "2", "}", "a">>,
    \* (aa|a){1,2}
    <<"(", "a", "a", "|", "a", ")", "{", "1", ",", "2", "}">>,
    \* (?:a|ab){2}
    <<"(", "?", ":", "a", "|", "a", "b", ")", "{", "2", "}">>,
    \* ba*
    <<"b", "a", "*">>,
    \* (a*)*b
    <<"(", "a", "*", ")", "*", "b">>,
    \* \ba\b
    <<"\\", "b", "a", "\\", "b">>,
    \* a$
    <<"a", "$">>,
    \* [^a]\w
    <<"[", "^", "a", "]", "\\", "w">>,
    \* .b
    <<".", "b">>,
    \* (a
    <<"(", "a">>,
    \* a{2,1}
    <<"a", "{", "2", ",", "1", "}">>
}

(***************************************************************************)
(* main.rs: parse, compile, search.                                        *)
(***************************************************************************)
\* previous holds the results of an earlier parse and compile of the same
\* pattern (see Rerun), or NoRun.
VARIABLES pattern, input, phase, parsed, program, vm, previous

vars == <<pattern, input, phase, parsed, program, vm, previous>>

NoProgram == [insts |-> <<>>, n_groups |-> 0, first_char |-> EOF,
              anchored_start |-> FALSE, overflow |-> FALSE]

NoRun == [ran |-> FALSE, parsed |-> PErr("", 0, 0), program |-> NoProgram]

Init ==
    /\ pattern \in Patterns
    /\ input \in Inputs
    /\ phase = "parse"
    /\ parsed = PErr("", 0, 0)
    /\ program = NoProgram
    /\ vm = VM0
    /\ previous = NoRun

\* A faulty main that parses with a Parser it has used before: the cursor is
\* reset, group_count is not.
ParseWithUsedParser ==
    /\ phase = "parse"
    /\ parsed' = parse_end(pattern, parse_alternation(pattern, 0, parsed.gc))
    /\ phase' = IF parsed'.ok THEN "compile" ELSE "error"
    /\ UNCHANGED <<pattern, input, program, vm, previous>>

\* let mut p = Parser::new(pattern); p.parse(): Err prints ERROR and returns.
Parse ==
    /\ phase = "parse"
    /\ parsed' = parse(pattern)
    /\ phase' = IF parsed'.ok THEN "compile" ELSE "error"
    /\ UNCHANGED <<pattern, input, program, vm, previous>>

\* compiler::compile(&ast, p.group_count())
Compile ==
    /\ phase = "compile"
    /\ program' = compile(parsed.node, parsed.gc)
    /\ phase' = IF program'.overflow THEN "panic" ELSE "search"
    /\ UNCHANGED <<pattern, input, parsed, vm, previous>>

\* vm::search runs, and its next step is of kind k.
Running(k) == phase = "search" /\ StepKind(program, vm) = k

SearchStart ==
    /\ Running("search_start")
    /\ vm' = search_start(program, input, vm)
    /\ UNCHANGED <<pattern, input, phase, parsed, program, previous>>

SearchReturn ==
    /\ Running("search_return")
    /\ vm' = search_return(program, input, vm)
    /\ UNCHANGED <<pattern, input, phase, parsed, program, previous>>

ExecEntry ==
    /\ Running("entry")
    /\ vm' = exec_entry(vm)
    /\ UNCHANGED <<pattern, input, phase, parsed, program, previous>>

ExecMatch ==
    /\ Running("match")
    /\ vm' = Step(program, input, vm)
    /\ UNCHANGED <<pattern, input, phase, parsed, program, previous>>

ExecConsume ==
    /\ Running("consume")
    /\ vm' = exec_consume(Cur(program, vm), input, vm)
    /\ UNCHANGED <<pattern, input, phase, parsed, program, previous>>

ExecJump ==
    /\ Running("jump")
    /\ vm' = Step(program, input, vm)
    /\ UNCHANGED <<pattern, input, phase, parsed, program, previous>>

ExecSplit ==
    /\ Running("split")
    /\ vm' = exec_split(Cur(program, vm), vm)
    /\ UNCHANGED <<pattern, input, phase, parsed, program, previous>>

ExecSplitReturn ==
    /\ Running("split_return")
    /\ vm' = exec_split_return(vm)
    /\ UNCHANGED <<pattern, input, phase, parsed, program, previous>>

ExecSplitSecond ==
    /\ Running("split_second")
    /\ vm' = exec_split_second(Cur(program, vm), vm)
    /\ UNCHANGED <<pattern, input, phase, parsed, program, previous>>

ExecSave ==
    /\ Running("save")
    /\ vm' = exec_save(program, Cur(program, vm), vm)
    /\ UNCHANGED <<pattern, input, phase, parsed, program, previous>>

ExecAssert ==
    /\ Running("assert")
    /\ vm' = exec_assert(Cur(program, vm), input, vm)
    /\ UNCHANGED <<pattern, input, phase, parsed, program, previous>>

\* Backref in a build with overflow checks, and in any build when `ge - gs`
\* does not underflow or the wrapped slice bounds panic.
ExecBackref ==
    /\ Running("backref")
    /\ vm' = exec_backref(program, Cur(program, vm), input, vm)
    /\ UNCHANGED <<pattern, input, phase, parsed, program, previous>>

\* Backref in a build without overflow checks, where `ge - gs` wraps and the
\* bounds test fails.
ExecBackrefWrapped ==
    /\ Running("backref")
    /\ backref_wraps_to_false(program, Cur(program, vm), vm)
    /\ vm' = Return(vm, FALSE)
    /\ UNCHANGED <<pattern, input, phase, parsed, program, previous>>

ExecLookahead ==
    /\ Running("lookahead")
    /\ vm' = exec_lookahead(Cur(program, vm), vm)
    /\ UNCHANGED <<pattern, input, phase, parsed, program, previous>>

ExecLookaheadReturn ==
    /\ Running("lookahead_return")
    /\ vm' = exec_lookahead_return(Cur(program, vm), vm)
    /\ UNCHANGED <<pattern, input, phase, parsed, program, previous>>

ExecLookbehind ==
    /\ Running("lookbehind")
    /\ vm' = exec_lookbehind(Cur(program, vm), vm)
    /\ UNCHANGED <<pattern, input, phase, parsed, program, previous>>

ExecLookbehindReturn ==
    /\ Running("lookbehind_return")
    /\ vm' = exec_lookbehind_return(Cur(program, vm), vm)
    /\ UNCHANGED <<pattern, input, phase, parsed, program, previous>>

\* A step of vm::search.
SearchStep ==
    \/ SearchStart
    \/ SearchReturn
    \/ ExecEntry
    \/ ExecMatch
    \/ ExecConsume
    \/ ExecJump
    \/ ExecSplit
    \/ ExecSplitReturn
    \/ ExecSplitSecond
    \/ ExecSave
    \/ ExecAssert
    \/ ExecBackref
    \/ ExecBackrefWrapped
    \/ ExecLookahead
    \/ ExecLookaheadReturn
    \/ ExecLookbehind
    \/ ExecLookbehindReturn

Next ==
    \/ Parse
    \/ Compile
    \/ SearchStep

Spec == Init /\ [][Next]_vars

\* search is one thread that runs without suspending: while it has a step to
\* take, it takes a step.
FairSpec == Spec /\ WF_vars(SearchStep)

(***************************************************************************)
(* The parser and the compiler alone: every pattern of at most MaxPatLen   *)
(* characters over PatternChars, the longer patterns of LongPatterns and   *)
(* the patterns of the catalogue above are parsed and compiled, and then   *)
(* parsed and compiled a second time.                                      *)
(***************************************************************************)
\* Longest pattern of the exhaustive part.
MaxPatLen == 3

PatternChars == {"(", ")", "?", ":", "<", "=", "\\", "[", "]", "a", "|", "{", "}", "1", ","}

RECURSIVE StringsOver(_, _)
StringsOver(chars, n) ==
    IF n = 0 THEN {<<>>}
    ELSE LET shorter == StringsOver(chars, n - 1)
         IN  shorter \cup {Append(w, c) : w \in {x \in shorter : Len(x) = n - 1}, c \in chars}

ShortPatterns == StringsOver(PatternChars, MaxPatLen)

\* Longer patterns: nested and sibling groups, groups next to escapes and
\* classes, lookaround prefixes, brace quantifiers and failed ones.
LongPatterns == {
    \* ((a)(a))
    <<"(", "(", "a", ")", "(", "a", ")", ")">>,
    \* (a(a)a)|(a)
    <<"(", "a", "(", "a", ")", "a", ")", "|", "(", "a", ")">>,
    \* (?:(a))(a)
    <<"(", "?", ":", "(", "a", ")", ")", "(", "a", ")">>,
    \* (?=(a))(a)
    <<"(", "?", "=", "(", "a", ")", ")", "(", "a", ")">>,
    \* (?<=(a))(a)
    <<"(", "?", "<", "=", "(", "a", ")", ")", "(", "a", ")">>,
    \* (?<!(a))(a)
    <<"(", "?", "<", "!", "(", "a", ")", ")", "(", "a", ")">>,
    \* (?!(a))(a)
    <<"(", "?", "!", "(", "a", ")", ")", "(", "a", ")">>,
    \* (\()[(](a)
    <<"(", "\\", "(", ")", "[", "(", "]", "(", "a", ")">>,
    \* [^]](a)
    <<"[", "^", "]", "]", "(", "a", ")">>,
    \* [a-\]](a)
    <<"[", "a", "-", "\\", "]", "]", "(", "a", ")">>,
    \* [(?a](a)
    <<"[", "(", "?", "a", "]", "(", "a", ")">>,
    \* \(?a
    <<"\\", "(", "?", "a">>,
    \* (a){1}(a)
    <<"(", "a", ")", "{", "1", "}", "(", "a", ")">>,
    \* (a){(a)
    <<"(", "a", ")", "{", "(", "a", ")">>,
    \* (?<=a)
    <<"(", "?", "<", "=", "a", ")">>,
    \* (?<!a)
    <<"(", "?", "<", "!", "a", ")">>,
    \* (?<a)
    <<"(", "?", "<", "a", ")">>,
    \* (?<
    <<"(", "?", "<">>,
    \* (?!a
    <<"(", "?", "!", "a">>,
    \* (?:a|(a)
    <<"(", "?", ":", "a", "|", "(", "a", ")">>,
    \* [a-
    <<"[", "a", "-">>,
    \* [a\\
    <<"[", "a", "\\", "\\">>,
    \* (a)\\
    <<"(", "a", ")", "\\", "\\">>,
    \* (a))(a)
    <<"(", "a", ")", ")", "(", "a", ")">>,
    \* a{1,2}
    <<"a", "{", "1", ",", "2", "}">>,
    \* a{2,2}
    <<"a", "{", "2", ",", "2", "}">>,
    \* a{1,1}
    <<"a", "{", "1", ",", "1", "}">>,
    \* a{0,0}
    <<"a", "{", "0", ",", "0", "}">>,
    \* (a){2,2}
    <<"(", "a", ")", "{", "2", ",", "2", "}">>,
    \* (a|1){1,1}
    <<"(", "a", "|", "1", ")", "{", "1", ",", "1", "}">>,
    \* a{1,1}?
    <<"a", "{", "1", ",", "1", "}", "?">>,
    \* a{2}
    <<"a", "{", "2", "}">>,
    \* a{1,}
    <<"a", "{", "1", ",", "}">>,
    \* a{1,a}
    <<"a", "{", "1", ",", "a", "}">>,
    \* a{,1}
    <<"a", "{", ",", "1", "}">>,
    \* a{1,2
    <<"a", "{", "1", ",", "2">>,
    \* a{1}{
    <<"a", "{", "1", "}", "{">>,
    \* a{{1}
    <<"a", "{", "{", "1", "}">>,
    \* a{1,,2}
    <<"a", "{", "1", ",", ",", "2", "}">>,
    \* (a{)
    <<"(", "a", "{", ")">>,
    \* a{a}|a
    <<"a", "{", "a", "}", "|", "a">>,
    \* a{1 }
    <<"a", "{", "1", " ", "}">>,
    \* a{1,2}?
    <<"a", "{", "1", ",", "2", "}", "?">>
}

\* Character classes: '[' and every body of at most MaxClassLen characters
\* over ClassChars.
MaxClassLen == 5
ClassChars == {"a", "-", "]", "\\", "^"}
ClassPatterns == {<<"[">> \o w : w \in StringsOver(ClassChars, MaxClassLen)}

ParserPatterns == ShortPatterns \cup LongPatterns \cup Patterns \cup ClassPatterns

ParserInit ==
    /\ pattern \in ParserPatterns
    /\ input = <<>>
    /\ phase = "parse"
    /\ parsed = PErr("", 0, 0)
    /\ program = NoProgram
    /\ vm = VM0
    /\ previous = NoRun

\* The run has ended (here with compile's return); its results are kept for
\* comparison and the pattern is parsed and compiled once more, by a new
\* Parser and a new call of compile.
Rerun ==
    /\ phase \in {"search", "error", "panic"}
    /\ ~previous.ran
    /\ previous' = [ran |-> TRUE, parsed |-> parsed, program |-> program]
    /\ phase' = "parse"
    /\ UNCHANGED <<pattern, input, parsed, program, vm>>

ParserNext ==
    \/ Parse
    \/ Compile
    \/ Rerun

ParserSpec == ParserInit /\ [][ParserNext]_vars

(***************************************************************************)
(* The shorthand classes alone: each of \d \D \w \W \s \S is searched for  *)
(* in each one-character input.                                            *)
(***************************************************************************)
Range1(seq) == {seq[i] : i \in 1..Len(seq)}

Punctuation == {"!", "$", "(", ")", "*", "+", ",", "-", ".", ":", "<", "=", "?", "[",
                "\\", "]", "^", "_", "{", "|", "}"}

\* The characters of the model: those Ord knows.
Chars == Range1(Digits) \cup Range1(Uppers) \cup Range1(Lowers) \cup Punctuation
         \cup {" ", "\t", "\n", VT, "\f", "\r"}

ShorthandLetters == {"d", "D", "w", "W", "s", "S"}

ClassInit ==
    /\ pattern \in {<<"\\", k>> : k \in ShorthandLetters}
    /\ input \in {<<c>> : c \in Chars}
    /\ phase = "parse"
    /\ parsed = PErr("", 0, 0)
    /\ program = NoProgram
    /\ vm = VM0
    /\ previous = NoRun

ClassNext ==
    \/ Parse
    \/ Compile
    \/ SearchStart
    \/ SearchReturn
    \/ ExecEntry
    \/ ExecMatch
    \/ ExecConsume

ClassSpec == ClassInit /\ [][ClassNext]_vars

(***************************************************************************)
(* search and exec run to their end as functions: the machine's steps      *)
(* iterated, at most MaxSteps of them.                                     *)
(***************************************************************************)
MaxSteps == 600

RECURSIVE Run(_, _, _, _)
Run(prog, chars, v, fuel) ==
    IF fuel = 0 \/ StepKind(prog, v) = "none" THEN v
    ELSE Run(prog, chars, Step(prog, chars, v), fuel - 1)

\* search(program, input)
Search(prog, chars) == Run(prog, chars, VM0, MaxSteps)

RECURSIVE RunExec(_, _, _, _)
RunExec(prog, chars, v, fuel) ==
    IF fuel = 0 \/ v.st = "panic" \/ (v.st = "ret" /\ Len(v.frames) = 0) THEN v
    ELSE RunExec(prog, chars, Step(prog, chars, v), fuel - 1)

\* exec(program, &chars, start, 0, &mut captures, &mut undo_log, depth) on
\* search's fresh captures: the machine when the call has returned.
ExecAt(prog, chars, start, depth) ==
    RunExec(prog, chars,
            Call([VM0 EXCEPT !.start = start,
                             !.ctxs = <<[captures |-> fresh_captures(prog, start),
                                         undo_log |-> <<>>]>>],
                 0, start, depth),
            MaxSteps)

Returned(v) == v.st = "ret" /\ Len(v.frames) = 0
Succeeded(v) == Returned(v) /\ v.ret

(***************************************************************************)
(* What the claims speak of.                                               *)
(*                                                                         *)
(* An execution of a program is a path of configurations (pc, pos, caps)   *)
(* that follows the instructions' meaning with every choice open: a Split  *)
(* goes to either target; a positive lookaround goes on with the captures  *)
(* of any accepting execution of its sub-program, a negative one goes on   *)
(* iff the sub-program has none; a lookbehind's sub-program may start at   *)
(* any p <= pos and must reach its Match at pos; a Backref whose slots are *)
(* unset, absent or out of order fails.  It is accepting when it reaches a *)
(* Match.  Accepting(prog, chars, pc, pos, caps) is the set of (pos, caps) *)
(* at the Match of the accepting executions from (pc, pos, caps).          *)
(***************************************************************************)
Config(pc, pos, caps) == [pc |-> pc, pos |-> pos, caps |-> caps]

\* The captures after a positive lookaround: slots 0 and 1 kept, the others
\* as the sub-program's execution left them.
Propagated(caps, sub) == [i \in 1..Len(caps) |-> IF i <= 2 THEN caps[i] ELSE sub[i]]

RECURSIVE Accepting(_, _, _, _, _)
RECURSIVE Closure(_, _, _, _)

AcceptingBehind(prog, chars, sub_start, pos, caps) ==
    UNION {{m \in Accepting(prog, chars, sub_start, p, caps) : m.pos = pos} : p \in 0..pos}

BackrefText(chars, c, group) ==
    LET gs == c.caps[group * 2 + 1]
        ge == c.caps[group * 2 + 2]
    IN  IF group * 2 + 2 <= Len(c.caps) /\ gs # None /\ ge # None /\ gs <= ge
           /\ c.pos + (ge - gs) <= Len(chars) /\ same_text(chars, gs, c.pos, ge - gs)
        THEN {Config(c.pc + 1, c.pos + (ge - gs), c.caps)}
        ELSE {}

Successors(prog, chars, c) ==
    LET inst == InstAt(prog, c.pc)
    IN  CASE inst.op \in {"Char", "AnyChar", "CharClass", "ShorthandClass"} ->
               IF c.pos < Len(chars) /\ consumes(inst, chars[c.pos + 1])
               THEN {Config(c.pc + 1, c.pos + 1, c.caps)} ELSE {}
          [] inst.op = "Match" -> {}
          [] inst.op = "Jump" -> {Config(inst.x, c.pos, c.caps)}
          [] inst.op = "Nop" -> {Config(c.pc + 1, c.pos, c.caps)}
          [] inst.op = "Split" -> {Config(inst.x, c.pos, c.caps), Config(inst.y, c.pos, c.caps)}
          [] inst.op = "Save" ->
               IF inst.slot < Len(c.caps)
               THEN {Config(c.pc + 1, c.pos, [c.caps EXCEPT ![inst.slot + 1] = c.pos])}
               ELSE {}
          [] inst.op = "Assert" ->
               IF assertion_holds(inst, chars, c.pos) THEN {Config(c.pc + 1, c.pos, c.caps)}
               ELSE {}
          [] inst.op = "Backref" -> BackrefText(chars, c, inst.group)
          [] inst.op = "LookaheadPositive" ->
               {Config(inst.y, c.pos, Propagated(c.caps, m.caps)) :
                    m \in Accepting(prog, chars, inst.x, c.pos, c.caps)}
          [] inst.op = "LookaheadNegative" ->
               IF Accepting(prog, chars, inst.x, c.pos, c.caps) = {}
               THEN {Config(inst.y, c.pos, c.caps)} ELSE {}
          [] inst.op = "LookbehindPositive" ->
               {Config(inst.y, c.pos, Propagated(c.caps, m.caps)) :
                    m \in AcceptingBehind(prog, chars, inst.x, c.pos, c.caps)}
          [] inst.op = "LookbehindNegative" ->
               IF AcceptingBehind(prog, chars, inst.x, c.pos, c.caps) = {}
               THEN {Config(inst.y, c.pos, c.caps)} ELSE {}
          [] OTHER -> {}

Closure(prog, chars, frontier, seen) ==
    IF frontier = {} THEN seen
    ELSE LET found == UNION {Successors(prog, chars, c) : c \in frontier} \ seen
         IN  Closure(prog, chars, found, seen \cup found)

Accepting(prog, chars, pc, pos, caps) ==
    LET c0 == Config(pc, pos, caps)
        reached == Closure(prog, chars, {c0}, {c0})
    IN  {[pos |-> c.pos, caps |-> c.caps] :
             c \in {d \in reached : InstAt(prog, d.pc).op = "Match"}}

\* The end positions of the program's accepting executions from pc 0 at start.
AcceptedEnds(prog, chars, start) ==
    {m.pos : m \in Accepting(prog, chars, 0, start, fresh_captures(prog, start))}

\* The nodes directly below a node of the syntax tree.
Children(node) ==
    CASE node.t \in {"Concat", "Alternation"} -> node.nodes
      [] node.t \in {"Quantifier", "Group", "NonCapturingGroup", "Lookahead", "Lookbehind"}
           -> <<node.node>>
      [] OTHER -> <<>>

RECURSIVE CountNodes(_, _)
RECURSIVE CountIn(_, _, _)
\* The number of nodes of a class in the tree: "greedy" and "lazy" quantifiers
\* whose number of repetitions is open, "star" quantifiers, "choice" nodes
\* other than quantifiers (alternations, lookarounds, backreferences).
IsOf(node, class) ==
    CASE class = "greedy" -> node.t = "Quantifier" /\ node.greedy /\ node.kind.k # "Exact"
      [] class = "lazy" -> node.t = "Quantifier" /\ ~node.greedy /\ node.kind.k # "Exact"
      [] class = "star" -> node.t = "Quantifier" /\ node.kind.k = "Star"
      [] class = "choice" ->
           node.t \in {"Alternation", "Lookahead", "Lookbehind", "Backreference"}
      [] class = "look" -> node.t \in {"Lookahead", "Lookbehind"}

CountIn(nodes, i, class) ==
    IF i > Len(nodes) THEN 0
    ELSE CountNodes(nodes[i], class) + CountIn(nodes, i + 1, class)

CountNodes(node, class) ==
    (IF IsOf(node, class) THEN 1 ELSE 0) + CountIn(Children(node), 1, class)

RECURSIVE GroupsIn(_)
\* The indices of the capturing groups in a tree.
GroupsIn(node) ==
    (IF node.t = "Group" THEN {node.index} ELSE {})
    \cup UNION {GroupsIn(Children(node)[i]) : i \in 1..Len(Children(node))}

RECURSIVE LookGroups(_)
\* The indices of the capturing groups inside lookaround bodies.
LookGroups(node) ==
    IF node.t \in {"Lookahead", "Lookbehind"} THEN GroupsIn(node.node)
    ELSE UNION {LookGroups(Children(node)[i]) : i \in 1..Len(Children(node))}

RECURSIVE LazyTwin(_)
RECURSIVE LazyTwins(_, _)
\* The tree with every X* made X*? and every X*? made X*.
LazyTwins(nodes, i) ==
    IF i > Len(nodes) THEN <<>> ELSE <<LazyTwin(nodes[i])>> \o LazyTwins(nodes, i + 1)

LazyTwin(node) ==
    CASE node.t \in {"Concat", "Alternation"} -> [node EXCEPT !.nodes = LazyTwins(node.nodes, 1)]
      [] node.t = "Quantifier" ->
           [node EXCEPT !.node = LazyTwin(node.node),
                        !.greedy = IF node.kind.k = "Star" THEN ~node.greedy ELSE node.greedy]
      [] node.t \in {"Group", "NonCapturingGroup", "Lookahead", "Lookbehind"} ->
           [node EXCEPT !.node = LazyTwin(node.node)]
      [] OTHER -> node

\* search has returned Some(MatchResult) / None.
Matched == phase = "search" /\ vm.st = "matched"
NoMatch == phase = "search" /\ vm.st = "nomatch"
\* main has ended: a result was printed, or the process panicked.
Ended == phase \in {"error", "panic"}
         \/ (phase = "search" /\ vm.st \in {"matched", "nomatch", "panic"})

\* The MatchResult: start, end, captures.
ResultStart == vm.start
ResultCaptures == vm.ctxs[1].captures
ResultEnd == ResultCaptures[2]
GroupStart(g) == ResultCaptures[2 * g + 1]
GroupEnd(g) == ResultCaptures[2 * g + 2]
GroupSet(g) == GroupStart(g) # None /\ GroupEnd(g) # None

(***************************************************************************)
(* C1.  A reported match is accepted by the pattern.                       *)
(***************************************************************************)
\* C1: when search returns start = a and end = b, slot 0 is a, slot 1 is b,
\* and the program has an accepting execution from pc 0 at a that reaches
\* Match at b.  (Stated for searches that stay within the depth limit.)
C1_ResultIsAccepted ==
    (Matched /\ ~vm.depth_exceeded) =>
        /\ ResultCaptures[1] = ResultStart
        /\ ResultEnd \in AcceptedEnds(program, input, ResultStart)

(***************************************************************************)
(* C2.  search reports the first match.                                    *)
(***************************************************************************)
\* C2: the reported start is the smallest position with an accepting
\* execution, and None is returned only when no position has one.  (Stated
\* for searches that stay within the depth limit.)
C2_FirstMatchReported ==
    /\ (Matched /\ ~vm.depth_exceeded) =>
           \A s \in 0..(ResultStart - 1) : AcceptedEnds(program, input, s) = {}
    /\ (NoMatch /\ ~vm.depth_exceeded) =>
           \A s \in 0..Len(input) : AcceptedEnds(program, input, s) = {}

(***************************************************************************)
(* C3.  search returns.                                                    *)
(***************************************************************************)
\* C3: for every pattern that parses and every input, search, once called,
\* eventually returns.  (A panic counts as an end here: only a search that
\* runs forever refutes the property.)
C3_SearchEventuallyReturns == (phase = "search") ~> Ended

(***************************************************************************)
(* C4.  Bounds of the reported groups.                                     *)
(***************************************************************************)
\* C4 as stated: every group reported with both ends set lies within the
\* match, a <= s <= e <= b, groups of lookaround bodies included.
C4_EveryGroupWithinMatch ==
    Matched =>
        \A g \in 1..program.n_groups :
            GroupSet(g) =>
                /\ ResultStart <= GroupStart(g)
                /\ GroupStart(g) <= GroupEnd(g)
                /\ GroupEnd(g) <= ResultEnd

\* C4 amended: a group outside every lookaround body lies within the match,
\* a <= s <= e <= b; a group inside a lookaround body lies within the input,
\* 0 <= s <= e <= len(S).
C4_GroupBounds ==
    Matched =>
        \A g \in 1..program.n_groups :
            GroupSet(g) =>
                /\ GroupStart(g) <= GroupEnd(g)
                /\ IF g \in LookGroups(parsed.node)
                   THEN 0 <= GroupStart(g) /\ GroupEnd(g) <= Len(input)
                   ELSE ResultStart <= GroupStart(g) /\ GroupEnd(g) <= ResultEnd

\* A match is reported with a group outside lookarounds set, and one with a
\* lookaround's group lying outside the match.
C4_Witness ==
    /\ Matched
    /\ \E g \in 1..program.n_groups :
           /\ GroupSet(g)
           /\ g \in LookGroups(parsed.node)
           /\ (GroupEnd(g) > ResultEnd \/ GroupStart(g) < ResultStart)

(***************************************************************************)
(* C5.  A backreference to an absent or later group.                       *)
(***************************************************************************)
\* C5: executing Backref(k) for a group that is absent (k > G) or opens
\* later never crashes the VM.
C5_BackrefNeverCrashes ==
    ~(phase = "search" /\ vm.st = "panic"
      /\ Len(vm.frames) > 0 /\ Cur(program, vm).op = "Backref"
      /\ Cur(program, vm).group > program.n_groups)

(***************************************************************************)
(* C6.  Undo-log discipline.                                               *)
(***************************************************************************)
\* C6: after the pop-back-to-mark loop of a Split whose first target
\* returned false, captures equals, slot by slot, its value when the mark
\* was taken, and the undo log has the mark's length.
C6_UndoLogDiscipline ==
    (phase = "search" /\ vm.st = "run" /\ Top(vm).pp = "restored") =>
        /\ Ctx(vm).captures = Top(vm).snap
        /\ Len(Ctx(vm).undo_log) = Top(vm).undo_mark

\* A failed first target in a pattern with a lookaround, with two or more
\* log entries popped.
C6_Witness ==
    /\ phase = "search" /\ vm.st = "run" /\ Top(vm).pp = "restored"
    /\ Top(vm).popped >= 2
    /\ CountNodes(parsed.node, "look") > 0

(***************************************************************************)
(* C7.  The verdict of a lookbehind.                                       *)
(***************************************************************************)
\* C7: when a lookbehind at pos ends its loop over the start positions, it
\* has found a candidate exactly when some p in 0..=pos has an accepting
\* execution of the sub-program from p that reaches Match at pos.  (Stated
\* for searches that stay within the depth limit.)
C7_LookbehindVerdict ==
    (Running("lookbehind_return") /\ ~vm.depth_exceeded) =>
        LET f == Top(vm)
            inst == Cur(program, vm)
            caps == Ctx(leave_sub(vm)).captures
            found == vm.ret /\ sub_captures_after(vm)[2] = f.pos
            last == f.lookback + 1 > f.pos
            exists == AcceptingBehind(program, input, inst.x, f.pos,
                                      [caps EXCEPT ![2] = None]) # {}
        IN  /\ found => exists
            /\ (~found /\ last) => ~exists

(***************************************************************************)
(* C8.  Alternation prefers the leftmost alternative.                      *)
(***************************************************************************)
\* exec on alternative i of the pattern A1|...|An alone, from the reported
\* start, at the depth the alternative runs at in the whole program.
BranchRun(i) ==
    ExecAt(compile(parsed.node.nodes[i], parsed.gc), input, ResultStart,
           IF i < Len(parsed.node.nodes) THEN 1 ELSE 0)

\* C8: for a pattern A1|...|An, the reported match and captures are those of
\* the leftmost alternative that succeeds at the reported start.
C8_AlternationLeftmost ==
    (Matched /\ parsed.node.t = "Alternation") =>
        \E i \in 1..Len(parsed.node.nodes) :
            /\ Succeeded(BranchRun(i))
            /\ \A j \in 1..(i - 1) : Returned(BranchRun(j)) /\ ~BranchRun(j).ret
            /\ Ctx(BranchRun(i)).captures = ResultCaptures

\* Two alternatives succeed at the reported start with different results.
C8_Witness ==
    /\ Matched /\ parsed.node.t = "Alternation"
    /\ \E i, j \in 1..Len(parsed.node.nodes) :
           /\ i < j
           /\ Succeeded(BranchRun(i)) /\ Succeeded(BranchRun(j))
           /\ Ctx(BranchRun(i)).captures # Ctx(BranchRun(j)).captures

(***************************************************************************)
(* C9.  Greedy is longest, lazy is shortest.                               *)
(***************************************************************************)
Longest(ends, b) == b \in ends /\ \A e \in ends : e <= b
Shortest(ends, b) == b \in ends /\ \A e \in ends : b <= e

\* C9 as stated: with greedy quantifiers the reported match is the longest
\* the pattern admits at the reported start, with lazy ones the shortest.
C9_GreedyLongestLazyShortest ==
    (Matched /\ CountNodes(parsed.node, "look") = 0 /\ ~vm.depth_exceeded) =>
        LET ends == AcceptedEnds(program, input, ResultStart)
            greedy == CountNodes(parsed.node, "greedy")
            lazy == CountNodes(parsed.node, "lazy")
        IN  /\ (greedy > 0 /\ lazy = 0) => Longest(ends, ResultEnd)
            /\ (lazy > 0 /\ greedy = 0) => Shortest(ends, ResultEnd)

\* The quantifier is the pattern's only choice: one quantifier, and no
\* alternation, lookaround or backreference.
OnlyChoiceIsOneQuantifier ==
    /\ CountNodes(parsed.node, "greedy") + CountNodes(parsed.node, "lazy") = 1
    /\ CountNodes(parsed.node, "choice") = 0

\* C9 amended: when the quantifier is the pattern's only choice and the
\* search stays within the depth limit, a greedy quantifier reports the
\* longest match the pattern admits at the reported start and a lazy one the
\* shortest.
C9_OnlyChoiceExtremal ==
    (Matched /\ OnlyChoiceIsOneQuantifier /\ ~vm.depth_exceeded) =>
        LET ends == AcceptedEnds(program, input, ResultStart)
        IN  IF CountNodes(parsed.node, "greedy") = 1 THEN Longest(ends, ResultEnd)
            ELSE Shortest(ends, ResultEnd)

\* A greedy quantifier, the pattern's only choice, with matches of several
\* lengths at the reported start: the longest one is reported.
C9_Witness ==
    /\ Matched /\ OnlyChoiceIsOneQuantifier /\ ~vm.depth_exceeded
    /\ CountNodes(parsed.node, "greedy") = 1
    /\ Cardinality(AcceptedEnds(program, input, ResultStart)) >= 3
    /\ ResultEnd > ResultStart

(***************************************************************************)
(* C10.  X* and X*? agree on where a match is.                             *)
(***************************************************************************)
\* search on the pattern with its X* made X*? (or its X*? made X*).
TwinSearch == Search(compile(LazyTwin(parsed.node), parsed.gc), input)

\* C10: a pattern with one star quantifier and the same pattern with the
\* star's laziness flipped both report no match, or both report a match
\* with the same start.  (Stated for the case that both searches return,
\* within the depth limit.)
C10_GreedyLazySameStart ==
    ((Matched \/ NoMatch) /\ ~vm.depth_exceeded
     /\ CountNodes(parsed.node, "star") = 1) =>
        LET twin == TwinSearch
        IN  (twin.st \in {"matched", "nomatch"} /\ ~twin.depth_exceeded) =>
                /\ twin.st = vm.st
                /\ twin.st = "matched" => twin.start = vm.start

(***************************************************************************)
(* The lexical structure of a pattern, read off its characters from left   *)
(* to right: a backslash takes the next character with it; '[' opens a     *)
(* class that runs to the next ']' that is neither escaped nor the first   *)
(* character of the class; every other character is live.                  *)
(***************************************************************************)
\* The character at 1-based index i, EOF outside the pattern.
At(cs, i) == IF i \in 1..Len(cs) THEN cs[i] ELSE EOF

RECURSIVE ClassScan(_, _)
\* The index of the ']' that closes a class, scanning from index j inside
\* it; Len(cs) + 1 or more when the pattern ends inside the class.
ClassScan(cs, j) ==
    IF j > Len(cs) THEN j
    ELSE IF cs[j] = "\\" THEN ClassScan(cs, j + 2)
    ELSE IF cs[j] = "]" THEN j
    ELSE ClassScan(cs, j + 1)

\* The index of the ']' that closes the class opened by the '[' at index i.
ClassClose(cs, i) ==
    LET a == IF At(cs, i + 1) = "^" THEN i + 2 ELSE i + 1
        b == IF At(cs, a) = "]" THEN a + 1 ELSE a
    IN  ClassScan(cs, b)

RECURSIVE Live(_, _)
\* The indices from i on of the characters that are neither escaped nor
\* inside a class (nor the brackets of one).
Live(cs, i) ==
    IF i > Len(cs) THEN {}
    ELSE IF cs[i] = "\\" THEN Live(cs, i + 2)
    ELSE IF cs[i] = "[" THEN Live(cs, ClassClose(cs, i) + 1)
    ELSE {i} \cup Live(cs, i + 1)

\* The '(' of the pattern that are not immediately followed by '?'.
PlainParens(cs) == {i \in 1..Len(cs) : cs[i] = "(" /\ At(cs, i + 1) # "?"}

(***************************************************************************)
(* C11.  group_count and the '(' of the pattern.                           *)
(***************************************************************************)
\* C11 as stated: after a successful parse, group_count is the number of
\* '(' not immediately followed by '?', whatever their context: escaped and
\* inside a class included.
C11_CountsEveryParen ==
    parsed.ok => parsed.gc = Cardinality(PlainParens(pattern))

\* C11 amended: after a successful parse, group_count is the number of '('
\* not immediately followed by '?' that are neither escaped by a backslash
\* nor inside a character class.
C11_CountsGroupOpeningParens ==
    parsed.ok => parsed.gc = Cardinality(PlainParens(pattern) \cap Live(pattern, 1))

\* A pattern has parsed that has capturing groups, an escaped '(' and a '('
\* inside a class.
C11_Witness ==
    /\ parsed.ok
    /\ parsed.gc >= 2
    /\ Cardinality(PlainParens(pattern) \ Live(pattern, 1)) >= 2

(***************************************************************************)
(* C12.  Group indices.                                                    *)
(***************************************************************************)
RECURSIVE GroupsPreorder(_)
RECURSIVE GroupsPreorderOf(_, _)
\* The indices of the Group nodes of a tree in the order of their opening
\* '(': a node before the nodes below it, those from left to right.
GroupsPreorderOf(nodes, i) ==
    IF i > Len(nodes) THEN <<>>
    ELSE GroupsPreorder(nodes[i]) \o GroupsPreorderOf(nodes, i + 1)

GroupsPreorder(node) ==
    (IF node.t = "Group" THEN <<node.index>> ELSE <<>>)
    \o GroupsPreorderOf(Children(node), 1)

\* C12: in the tree of a successful parse the Group indices, in the order
\* of the groups' opening '(', are 1, 2, ..., G with G = group_count(): dense,
\* each used once, an enclosing group before the groups it encloses;
\* non-capturing groups and lookarounds have no index.
C12_GroupIndicesInOrder ==
    parsed.ok => GroupsPreorder(parsed.node) = [i \in 1..parsed.gc |-> i]

\* A parsed pattern with a group that encloses two groups, and one with a
\* capturing group inside a lookaround or a non-capturing group before
\* another capturing group.
C12_Witness ==
    /\ parsed.ok
    /\ parsed.gc = 3
    /\ parsed.node.t = "Group"
    /\ GroupsIn(parsed.node.node) = {2, 3}

(***************************************************************************)
(* C13.  The patterns the parser rejects.                                  *)
(***************************************************************************)
RECURSIVE Malformed(_, _, _)
\* Why the pattern, read from index i with `open` groups open, is not well
\* formed: "" when it is.
Malformed(cs, i, open) ==
    IF i > Len(cs) THEN (IF open > 0 THEN "ends inside a group" ELSE "")
    ELSE CASE cs[i] = "\\" ->
                IF i = Len(cs) THEN "ends after a backslash"
                ELSE Malformed(cs, i + 2, open)
           [] cs[i] = "[" ->
                IF ClassClose(cs, i) > Len(cs) THEN "ends inside a class"
                ELSE Malformed(cs, ClassClose(cs, i) + 1, open)
           [] cs[i] = "(" ->
                IF At(cs, i + 1) # "?" THEN Malformed(cs, i + 1, open + 1)
                ELSE IF At(cs, i + 2) \in {":", "=", "!"} THEN Malformed(cs, i + 3, open + 1)
                ELSE IF At(cs, i + 2) # "<" THEN "(? and no : = ! <"
                ELSE IF At(cs, i + 3) \in {"=", "!"} THEN Malformed(cs, i + 4, open + 1)
                ELSE "(?< and no = !"
           [] cs[i] = ")" ->
                IF open = 0 THEN "unmatched )" ELSE Malformed(cs, i + 1, open - 1)
           [] OTHER -> Malformed(cs, i + 1, open)

\* C13: parse returns an error, and main no tree, exactly for the patterns
\* that end inside an open group, inside an open class or right after an
\* escaping backslash, that open a group with "(?" not followed by one of
\* : = ! <, or with "(?<" not followed by = or !, or that have an unmatched
\* ')'; for every other pattern it returns a tree with the cursor at the end
\* of the pattern.
C13_RejectsExactlyMalformed ==
    (phase # "parse") =>
        /\ parsed.ok <=> Malformed(pattern, 1, 0) = ""
        /\ parsed.ok => parsed.pos = Len(pattern)
        /\ ~parsed.ok => phase = "error" /\ program = NoProgram

\* A pattern was rejected for its lookbehind prefix, after a group that
\* parsed.
C13_Witness ==
    /\ phase = "error"
    /\ Malformed(pattern, 1, 0) = "(?< and no = !"
    /\ parsed.gc >= 0
    /\ Len(pattern) >= 4

(***************************************************************************)
(* C14.  A brace that is no quantifier.                                    *)
(***************************************************************************)
\* The characters at the 0-based positions from..to - 1 are decimal digits,
\* one at least.
IsNumber(cs, from, to) ==
    from < to /\ \A k \in from..(to - 1) : At(cs, k + 1) \in Range1(Digits)

\* What follows the 0-based position p is one of n}  n,}  n,m}.
IsBraceForm(cs, p) ==
    \E e \in (p + 1)..Len(cs) :
        /\ IsNumber(cs, p, e)
        /\ \/ At(cs, e + 1) = "}"
           \/ At(cs, e + 1) = "," /\ At(cs, e + 2) = "}"
           \/ At(cs, e + 1) = ","
              /\ \E f \in (e + 2)..Len(cs) : IsNumber(cs, e + 1, f) /\ At(cs, f + 1) = "}"

\* The 0-based positions of the '{' that are followed by none of the forms.
FailedBraces(cs) == {p \in 0..(Len(cs) - 1) : cs[p + 1] = "{" /\ ~IsBraceForm(cs, p + 1)}

\* C14: at a '{' followed by none of n}, n,}, n,m}, parse_brace_quantifier
\* returns the atom unquantified with the cursor back on the '{' and
\* group_count as it was, without an error, and the atom parsed next at that
\* cursor is Literal('{').
C14_BraceFallback ==
    \A p \in FailedBraces(pattern) :
        \A gc \in {0, parsed.gc} :
            /\ parse_brace_quantifier(pattern, Literal("a"), p, gc) = POk(Literal("a"), p, gc)
            /\ parse_atom(pattern, p, gc) = POk(Literal("{"), p + 1, gc)

\* A pattern with a group, an atom and a '{' that opens no quantifier has
\* parsed: the tree has the atom and then the literal '{'.
C14_Witness ==
    /\ parsed.ok
    /\ parsed.gc >= 1
    /\ 3 \in FailedBraces(pattern)
    /\ parsed.node.t = "Concat"
    /\ parsed.node.nodes[1].t = "Group"
    /\ parsed.node.nodes[2] = Literal("{")

(***************************************************************************)
(* C15.  The shorthand classes.                                            *)
(***************************************************************************)
\* The classes as the specification defines them.
SpecDigit == Range1(Digits)
SpecWord == Range1(Digits) \cup Range1(Uppers) \cup Range1(Lowers) \cup {"_"}
SpecSpace == {" ", "\t", "\n", "\r", VT, "\f"}

InSpecClass(ch, letter) ==
    CASE letter = "d" -> ch \in SpecDigit
      [] letter = "D" -> ch \notin SpecDigit
      [] letter = "w" -> ch \in SpecWord
      [] letter = "W" -> ch \notin SpecWord
      [] letter = "s" -> ch \in SpecSpace
      [] letter = "S" -> ch \notin SpecSpace

\* C15: a shorthand class matches a character exactly when the character is
\* in the class as specified: \d the digits 0..9, \w the digits, the letters
\* A..Z, a..z and '_', \s the space, tab, newline, carriage return, vertical
\* tab and form feed, and \D, \W, \S their complements.  (Searched for in a
\* one-character input, the class is found iff it matches the character.)
C15_ShorthandAsSpecified ==
    (phase = "search" /\ vm.st \in {"matched", "nomatch"}
     /\ Len(input) = 1 /\ Len(pattern) = 2
     /\ pattern[1] = "\\" /\ pattern[2] \in ShorthandLetters) =>
        ((vm.st = "matched") <=> InSpecClass(input[1], pattern[2]))

(***************************************************************************)
(* C16.  The reported captures are those of the accepting path.            *)
(***************************************************************************)
RECURSIVE LastWrite(_, _, _)
\* The value of the last of the first n writes that is on the slot; None
\* when none is.
LastWrite(writes, n, slot) ==
    IF n = 0 THEN None
    ELSE IF writes[n].slot = slot THEN writes[n].val
    ELSE LastWrite(writes, n - 1, slot)

\* The writes on the path search's exec call followed to its Match.
AcceptingPathWrites == vm.ret_writes

\* C16: when search succeeds, every slot >= 2 holds the position of the last
\* Save on the slot along the accepting path (or the value a successful
\* positive lookaround on the path gave it), and is unset when the path has
\* none: nothing that a failed branch or an earlier start position wrote is
\* in the result.
C16_CapturesOfAcceptingPath ==
    Matched =>
        \A slot \in 2..(n_slots(program) - 1) :
            ResultCaptures[slot + 1]
                = LastWrite(AcceptingPathWrites, Len(AcceptingPathWrites), slot)

\* search has succeeded with the second alternative of a pattern whose
\* first alternative opens with a group, wrote the group's slots and failed:
\* the group is reported absent.
C16_Witness ==
    /\ Matched
    /\ parsed.node.t = "Alternation"
    /\ parsed.node.nodes[1].t = "Concat"
    /\ parsed.node.nodes[1].nodes[1].t = "Group"
    /\ Returned(BranchRun(1)) /\ ~BranchRun(1).ret
    /\ ~GroupSet(parsed.node.nodes[1].nodes[1].index)
    /\ ResultEnd > ResultStart

(***************************************************************************)
(* C17.  The depth limit.                                                  *)
(***************************************************************************)
\* The activations are nested one level deeper each, and none is deeper
\* than MAX_DEPTH + 1.
DepthBounded ==
    \A i \in 1..Len(vm.frames) :
        vm.frames[i].depth = i - 1 /\ vm.frames[i].depth <= MAX_DEPTH + 1

\* An activation entered with depth > MAX_DEPTH returns false, and leaves
\* captures and the undo log as they are.
EntryBeyondLimitFails ==
    (Running("entry") /\ Top(vm).depth > MAX_DEPTH) =>
        /\ vm'.st = "ret" /\ ~vm'.ret
        /\ vm'.frames = DropLast(vm.frames)
        /\ vm'.ctxs = vm.ctxs

\* A Split at depth MAX_DEPTH, whose call was refused, goes on: it restores
\* to its mark and continues with its second target at the same position.
CallerTakesSecond ==
    /\ (Running("split_return") /\ Top(vm).depth = MAX_DEPTH) =>
           /\ ~vm.ret
           /\ vm'.st = "run" /\ Top(vm').pp = "restored"
           /\ Ctx(vm').captures = Top(vm).snap
           /\ Len(Ctx(vm').undo_log) = Top(vm).undo_mark
    /\ (Running("split_second") /\ Top(vm).depth = MAX_DEPTH) =>
           /\ vm'.st = "run" /\ Top(vm').pp = "loop"
           /\ Top(vm').pc = Cur(program, vm).y
           /\ Top(vm').pos = Top(vm).pos

RECURSIVE ExactTwin(_)
RECURSIVE ExactTwins(_, _)
\* The tree with every X{n,n} made X{n}.
ExactTwins(nodes, i) ==
    IF i > Len(nodes) THEN <<>> ELSE <<ExactTwin(nodes[i])>> \o ExactTwins(nodes, i + 1)

ExactTwin(node) ==
    CASE node.t \in {"Concat", "Alternation"} -> [node EXCEPT !.nodes = ExactTwins(node.nodes, 1)]
      [] node.t = "Quantifier" ->
           [node EXCEPT !.node = ExactTwin(node.node),
                        !.kind = IF node.kind.k = "Range" /\ node.kind.n = node.kind.m
                                 THEN Exact(node.kind.n) ELSE node.kind]
      [] node.t \in {"Group", "NonCapturingGroup", "Lookahead", "Lookbehind"} ->
           [node EXCEPT !.node = ExactTwin(node.node)]
      [] OTHER -> node

\* The number of Split instructions in a sequence.
Splits(insts) == Cardinality({i \in 1..Len(insts) : insts[i].op = "Split"})

\* The pattern is X{n,n}, lazy or not.
IsRangeNN(node) ==
    node.t = "Quantifier" /\ node.kind.k = "Range" /\ node.kind.n = node.kind.m

\* C18: a pattern and the pattern with its X{n,n} written X{n} compile to
\* the same program, instruction by instruction, so search does the same on
\* every input; the program of X{n,n} is n copies of X's instructions and
\* Match, with no Split but those of X.
C18_RangeNNIsExactN ==
    (phase = "search" /\ parsed.ok) =>
        /\ compile(ExactTwin(parsed.node), parsed.gc) = program
        /\ IsRangeNN(parsed.node) =>
               /\ Len(program.insts) = parsed.node.kind.n * Len(emit(<<>>, parsed.node.node)) + 1
               /\ Splits(program.insts) = parsed.node.kind.n * Splits(emit(<<>>, parsed.node.node))

\* X{2,2} has compiled, with a group and an alternation in X.
C18_Witness ==
    /\ phase = "search"
    /\ IsRangeNN(parsed.node)
    /\ parsed.node.kind.n >= 1
    /\ Splits(program.insts) >= 1
    /\ parsed.gc >= 1

C20_BackrefSlotsOrdered ==
    (Running("backref") /\ Cur(program, vm).group * 2 < n_slots(program)) =>
        LET gs == Ctx(vm).captures[Cur(program, vm).group * 2 + 1]
            ge == Ctx(vm).captures[Cur(program, vm).group * 2 + 2]
        IN  (gs # None /\ ge # None) => gs <= ge

(***************************************************************************)
(* C21.  Range(n, m) has n <= m.                                           *)
(***************************************************************************)
RECURSIVE RangesIn(_)
\* The Range kinds of the quantifiers in a tree.
RangesIn(node) ==
    (IF node.t = "Quantifier" /\ node.kind.k = "Range" THEN {node.kind} ELSE {})
    \cup UNION {RangesIn(Children(node)[i]) : i \in 1..Len(Children(node))}

\* C21: every Range(n, m) in a tree the parser returns has n <= m, and
\* compile returns for every pattern the parser accepts: the count m - n of
\* optional copies never underflows.
C21_RangeBoundsOrdered ==
    /\ parsed.ok => \A kind \in RangesIn(parsed.node) : kind.n <= kind.m
    /\ phase # "panic"

(***************************************************************************)
(* C22.  The pre-filters of search.                                        *)
(***************************************************************************)
\* A driver without the two pre-filters: exec is called at every start
\* position 0..=len in order, and the first success is the result.
search_start_unfiltered(prog, chars, v) ==
    IF v.start > Len(chars) THEN [v EXCEPT !.st = "nomatch"]
    ELSE Call([v EXCEPT !.ctxs = <<[captures |-> fresh_captures(prog, v.start),
                                    undo_log |-> <<>>]>>],
              0, v.start, 0)

search_return_unfiltered(prog, chars, v) ==
    LET caps == Ctx(v).captures
    IN  IF v.ret
        THEN [v EXCEPT !.st = "matched",
                       !.ctxs[1].captures[2] = IF caps[2] = None THEN v.start ELSE caps[2]]
        ELSE [v EXCEPT !.st = "start", !.start = v.start + 1, !.ctxs = <<>>]

\* A step of the driver without pre-filters, in a build whose `ge - gs`
\* wraps (wrapping) or panics.
StepUnfiltered(prog, chars, v, wrapping) ==
    LET k == StepKind(prog, v)
    IN  CASE k = "search_start" -> search_start_unfiltered(prog, chars, v)
          [] k = "search_return" -> search_return_unfiltered(prog, chars, v)
          [] k = "backref" /\ wrapping /\ backref_wraps_to_false(prog, Cur(prog, v), v)
               -> Return(v, FALSE)
          [] OTHER -> Step(prog, chars, v)

\* The driver run for at most n steps, for at most n blocks of 100 steps,
\* and for at most fuel steps in blocks of 100 times 100 steps.
RECURSIVE StepsUnfiltered(_, _, _, _, _)
StepsUnfiltered(prog, chars, v, wrapping, n) ==
    IF n = 0 \/ StepKind(prog, v) = "none" THEN v
    ELSE StepsUnfiltered(prog, chars, StepUnfiltered(prog, chars, v, wrapping), wrapping, n - 1)

RECURSIVE BlocksUnfiltered(_, _, _, _, _)
BlocksUnfiltered(prog, chars, v, wrapping, n) ==
    IF n = 0 \/ StepKind(prog, v) = "none" THEN v
    ELSE BlocksUnfiltered(prog, chars, StepsUnfiltered(prog, chars, v, wrapping, 100),
                          wrapping, n - 1)

RECURSIVE RunUnfiltered(_, _, _, _, _)
RunUnfiltered(prog, chars, v, wrapping, fuel) ==
    IF fuel <= 0 \/ StepKind(prog, v) = "none" THEN v
    ELSE RunUnfiltered(prog, chars, BlocksUnfiltered(prog, chars, v, wrapping, 100),
                       wrapping, fuel - 100 * 100)

\* The search of the driver without pre-filters, to its end or for
\* 200 * MaxSteps steps.
SearchUnfiltered(prog, chars, wrapping) ==
    RunUnfiltered(prog, chars, VM0, wrapping, 200 * MaxSteps)

\* The outcome of a search that has ended: the result, None, or the panic.
Outcome(v) ==
    CASE v.st = "matched" -> [st |-> "matched", start |-> v.start,
                              captures |-> v.ctxs[1].captures, why |-> ""]
      [] v.st = "nomatch" -> [st |-> "nomatch", start |-> 0, captures |-> <<>>, why |-> ""]
      [] v.st = "panic" -> [st |-> "panic", start |-> 0, captures |-> <<>>, why |-> v.why]
      [] OTHER -> [st |-> "running", start |-> 0, captures |-> <<>>, why |-> ""]

\* The first-literal filter skips the start position of the turn.
SkipsStart(prog, chars, v) ==
    /\ ~prog.anchored_start
    /\ v.start <= Len(chars)
    /\ prog.first_char # EOF
    /\ (v.start < Len(chars) => chars[v.start + 1] # prog.first_char)

\* exec called at the start position returns false.
FailsAt(prog, chars, start) ==
    LET r == ExecAt(prog, chars, start, 0) IN Returned(r) /\ ~r.ret

\* C22: a start position the first-literal filter skips is one where exec
\* returns false; for an anchored program exec returns false at every start
\* position but 0; and so, when search has ended, its outcome (the start,
\* end and captures of the match, or no match) is the outcome of the driver
\* without pre-filters, in one of the two builds.
C22_PrefiltersKeepOutcome ==
    /\ (Running("search_start") /\ SkipsStart(program, input, vm)) =>
           FailsAt(program, input, vm.start)
    /\ (phase = "search" /\ program.anchored_start) =>
           \A start \in 1..Len(input) : FailsAt(program, input, start)
    /\ (phase = "search" /\ vm.st \in {"matched", "nomatch", "panic"}) =>
           Outcome(vm) \in {Outcome(SearchUnfiltered(program, input, wrapping)) :
                               wrapping \in BOOLEAN}

\* The first-literal filter has skipped a start position, and the search
\* has then matched at a later one.
C22_Witness ==
    /\ Matched
    /\ program.first_char # EOF
    /\ ~program.anchored_start
    /\ ResultStart > 0
    /\ ResultEnd > ResultStart

(***************************************************************************)
(* C23.  Lookaround is zero-width.                                         *)
(***************************************************************************)
LookOps == {"LookaheadPositive", "LookaheadNegative",
            "LookbehindPositive", "LookbehindNegative"}

\* exec_sub has returned to a lookaround instruction, and with this step
\* the instruction lets the activation continue (it neither returns false
\* nor starts another turn of the lookbehind loop).
LookContinues ==
    /\ Running("lookahead_return") \/ Running("lookbehind_return")
    /\ vm'.st = "run"
    /\ Len(vm'.frames) = Len(vm.frames)

\* The captures the lookaround's activation works on: the pair below the
\* sub-program's copy.
Enclosing(v) == v.ctxs[Len(v.ctxs) - 1]

\* While a call is in progress, the activations below the caller, the caller
\* itself during the call, and every (captures, undo_log) pair but the
\* innermost are as they were: the values a lookaround sees when exec_sub
\* returns are those before the instruction.
CallersFrozen ==
    /\ \A i \in 1..Len(vm.frames) :
           (i < Len(vm.frames) /\ i < Len(vm'.frames)) => vm'.frames[i] = vm.frames[i]
    /\ \A i \in 1..Len(vm.ctxs) :
           (i < Len(vm.ctxs) /\ i < Len(vm'.ctxs)) => vm'.ctxs[i] = vm.ctxs[i]
    /\ (Running("lookahead") \/ Running("lookbehind")) =>
           /\ Len(vm'.frames) = Len(vm.frames) + 1
           /\ vm'.frames[Len(vm.frames)].pos = Top(vm).pos
           /\ vm'.frames[Len(vm.frames)].pc = Top(vm).pc
           /\ Enclosing(vm') = Ctx(vm)

ZeroWidth ==
    LookContinues =>
        /\ Top(vm').pos = Top(vm).pos
        /\ Top(vm').pc = Cur(program, vm).y
        /\ Top(vm').pp = "loop"
        /\ Ctx(vm').captures[1] = Enclosing(vm).captures[1]
        /\ Ctx(vm').captures[2] = Enclosing(vm).captures[2]

\* C23: when a lookaround instruction lets execution continue, the position
\* is the one before the instruction, the program counter is sub_end, and
\* slots 0 and 1 of the enclosing captures are as before the instruction.
C23_LookaroundZeroWidth == [][CallersFrozen]_vars /\ [][ZeroWidth]_vars

\* A positive lookahead whose sub-program consumed input (a group of it ends
\* beyond the position) and set slot 1 of its copy at its Match has let the
\* activation continue: the activation is at sub_end, at the position where
\* the search started, with slot 1 unset.
C23_Witness ==
    /\ phase = "search" /\ vm.st = "run" /\ vm.ret
    /\ Top(vm).pp = "loop"
    /\ \E i \in 1..Len(program.insts) :
           /\ program.insts[i].op = "LookaheadPositive"
           /\ program.insts[i].y = Top(vm).pc
    /\ Ctx(vm).captures[2] = None
    /\ Ctx(vm).captures[1] = Top(vm).pos
    /\ \E i \in 3..Len(Ctx(vm).captures) :
           Ctx(vm).captures[i] # None /\ Ctx(vm).captures[i] > Top(vm).pos

(***************************************************************************)
(* C24.  Negative lookaround propagates nothing.                           *)
(***************************************************************************)
NegativeLookReturns ==
    /\ Running("lookahead_return") \/ Running("lookbehind_return")
    /\ Cur(program, vm).op \in {"LookaheadNegative", "LookbehindNegative"}

\* exec_sub has returned to a negative lookaround.  Whatever the step does
\* (the instruction continues, fails the branch, or the lookbehind starts
\* its next turn on a new copy), the enclosing captures and undo log are
\* those below the sub-program's copy, unchanged.
NegativeLeavesEnclosing ==
    NegativeLookReturns =>
        /\ Len(vm'.ctxs) <= Len(vm.ctxs)
        /\ Len(vm'.ctxs) < Len(vm.ctxs) =>
               /\ vm'.ctxs = DropLast(vm.ctxs)
               /\ Ctx(vm') = Enclosing(vm)
        /\ Len(vm'.ctxs) = Len(vm.ctxs) =>
               /\ Enclosing(vm') = Enclosing(vm)
               /\ Ctx(vm').undo_log = <<>>
               /\ Ctx(vm').captures = [Enclosing(vm).captures EXCEPT ![2] = None]

\* C24: a negative lookahead or lookbehind, whether it continues or fails
\* the branch, leaves every slot of the enclosing captures and the enclosing
\* undo log as they were before the instruction.
C24_NegativeLookaroundNoPropagation ==
    [][CallersFrozen]_vars /\ [][NegativeLeavesEnclosing]_vars

\* A negative lookaround whose sub-program begins with a group's Save, and
\* so executed it, has returned false and let the activation continue at
\* sub_end: no group slot is set and the undo log is empty.
C24_Witness ==
    /\ phase = "search" /\ vm.st = "run" /\ ~vm.ret
    /\ Top(vm).pp = "loop"
    /\ \E i \in 1..Len(program.insts) :
           /\ program.insts[i].op \in {"LookaheadNegative", "LookbehindNegative"}
           /\ program.insts[i].y = Top(vm).pc
           /\ program.insts[i + 1].op = "Save"
    /\ \A i \in 3..Len(Ctx(vm).captures) : Ctx(vm).captures[i] = None
    /\ Ctx(vm).undo_log = <<>>

(***************************************************************************)
(* C25.  Positive lookaround propagates its groups through the undo log.   *)
(***************************************************************************)
\* exec_sub has returned true to a positive lookaround and with this step
\* the instruction lets the activation continue.
PositiveLookSucceeds ==
    /\ LookContinues
    /\ Cur(program, vm).op \in {"LookaheadPositive", "LookbehindPositive"}

\* The undo entries of the slots >= 2 in which the copy differs from the
\* enclosing captures, in the order of the slots, with the enclosing values.
ChangedEntries(caps, sub) ==
    LET all == [i \in 1..Len(caps) |-> [slot |-> i - 1, old_val |-> caps[i]]]
        changed(e) == e.slot >= 2 /\ sub[e.slot + 1] # caps[e.slot + 1]
    IN  SelectSeq(all, changed)

Propagates ==
    PositiveLookSucceeds =>
        /\ \A i \in 3..Len(Ctx(vm').captures) : Ctx(vm').captures[i] = Ctx(vm).captures[i]
        /\ Ctx(vm').undo_log
               = Enclosing(vm).undo_log
                 \o ChangedEntries(Enclosing(vm).captures, Ctx(vm).captures)

\* C25: when a positive lookaround succeeds, every enclosing slot >= 2
\* takes the value the sub-program left in its copy, and the enclosing undo
\* log grows by one entry per changed slot holding the slot's prior value;
\* when the enclosing Split branch fails later, the slots are again what
\* they were at the Split.
C25_PositiveLookaroundPropagates ==
    /\ [][Propagates]_vars
    /\ [][CallersFrozen]_vars
    /\ []((phase = "search" /\ vm.st = "run" /\ Top(vm).pp = "restored") =>
              \A i \in 3..Len(Ctx(vm).captures) : Ctx(vm).captures[i] = Top(vm).snap[i])

\* Inside a Split branch, a positive lookaround has succeeded and set both
\* slots of a group of its sub-program, with two entries on the undo log.
C25_Witness ==
    /\ phase = "search" /\ vm.st = "run" /\ vm.ret
    /\ Len(vm.frames) >= 2
    /\ Top(vm).pp = "loop"
    /\ \E i \in 1..Len(program.insts) :
           /\ program.insts[i].op \in {"LookaheadPositive", "LookbehindPositive"}
           /\ program.insts[i].y = Top(vm).pc
    /\ Len(Ctx(vm).undo_log) = 2
    /\ Ctx(vm).undo_log[1].slot = 2 /\ Ctx(vm).undo_log[2].slot = 3
    /\ Ctx(vm).captures[3] # None /\ Ctx(vm).captures[4] # None
    /\ Ctx(vm).captures[2] = None

(***************************************************************************)
(* C26.  Compiled programs are well formed.                                *)
(***************************************************************************)
\* The targets of a branch instruction.
Targets(inst) ==
    CASE inst.op = "Jump" -> {inst.x}
      [] inst.op = "Split" -> {inst.x, inst.y}
      [] OTHER -> {}

\* The program counters an instruction at pc can hand control to: the next
\* instruction, its targets, a lookaround's sub_start and sub_end.
NextPcs(insts, pc) ==
    LET inst == insts[pc + 1]
    IN  CASE inst.op = "Match" -> {}
          [] inst.op \in {"Jump", "Split"} -> Targets(inst)
          [] inst.op \in LookOps -> {inst.x, inst.y}
          [] OTHER -> {pc + 1}

WellFormed(insts) ==
    LET len == Len(insts)
    IN  /\ len >= 1
        /\ insts[len].op = "Match"
        /\ \A pc \in 0..(len - 1) :
               /\ insts[pc + 1].op \notin {"Nop", "Overflow"}
               /\ \A t \in Targets(insts[pc + 1]) : t < len
               /\ \A t \in NextPcs(insts, pc) : t < len
               /\ insts[pc + 1].op \in LookOps =>
                      LET sub_start == insts[pc + 1].x
                          sub_end == insts[pc + 1].y
                      IN  /\ sub_start = pc + 1
                          /\ sub_start < sub_end
                          /\ sub_end < len
                          /\ insts[sub_end].op = "Match"
                          /\ \A q \in sub_start..(sub_end - 1) :
                                 \A t \in Targets(insts[q + 1]) :
                                     sub_start <= t /\ t < sub_end

\* C26: the program compile has returned has no Nop left, its Jump and Split
\* targets are below insts.len(), its last instruction is Match, and each
\* lookaround at i has sub_start = i + 1, a Match at sub_end - 1,
\* sub_end < insts.len() and the branch targets of its sub-program inside
\* [sub_start, sub_end); the program counter of every exec activation is
\* below insts.len().
C26_ProgramWellFormed ==
    phase = "search" =>
        /\ WellFormed(program.insts)
        /\ \A i \in 1..Len(vm.frames) : vm.frames[i].pc < Len(program.insts)

\* A search has ended on a program with a lookaround whose sub-program has a
\* Split and a Jump, followed by more instructions.
C26_Witness ==
    /\ phase = "search" /\ vm.st \in {"matched", "nomatch"}
    /\ \E pc \in 0..(Len(program.insts) - 1) :
           /\ program.insts[pc + 1].op \in LookOps
           /\ \E q \in program.insts[pc + 1].x..(program.insts[pc + 1].y - 1) :
                  program.insts[q + 1].op = "Split"
           /\ \E q \in program.insts[pc + 1].x..(program.insts[pc + 1].y - 1) :
                  program.insts[q + 1].op = "Jump"
           /\ program.insts[pc + 1].y < Len(program.insts) - 1

(***************************************************************************)
(* C27.  The slots Save writes.                                            *)
(***************************************************************************)
\* Every Save of the program has a slot of a group: 2 <= slot <= 2G + 1,
\* inside the 2 * (G + 1) slots search allocates.
SaveSlotsInRange ==
    phase = "search" =>
        /\ n_slots(program) = 2 * (parsed.gc + 1)
        /\ \A i \in 1..Len(program.insts) :
               program.insts[i].op = "Save" =>
                   /\ 2 <= program.insts[i].slot
                   /\ program.insts[i].slot <= 2 * parsed.gc + 1
                   /\ program.insts[i].slot < n_slots(program)

\* A Save assigns its slot and no other.
SaveWritesItsSlot ==
    Running("save") =>
        /\ vm'.st = "run"
        /\ Ctx(vm').captures
               = [Ctx(vm).captures EXCEPT ![Cur(program, vm).slot + 1] = Top(vm).pos]

\* With this step a lookbehind starts another turn: the innermost captures
\* after the step are a new copy.
NextTurn == Running("lookbehind_return") /\ Len(vm'.ctxs) = Len(vm.ctxs)

\* In a capture array that exists before and after a step, slot 0 keeps its
\* value, and slot 1 changes its value only if the step is a Match of the
\* activation that works on the array.
SlotsZeroAndOne ==
    \A i \in 1..Len(vm.ctxs) :
        (i <= Len(vm'.ctxs) /\ ~(NextTurn /\ i = Len(vm.ctxs))) =>
            /\ vm'.ctxs[i].captures[1] = vm.ctxs[i].captures[1]
            /\ vm'.ctxs[i].captures[2] # vm.ctxs[i].captures[2] =>
                   /\ Running("match")
                   /\ i = Len(vm.ctxs)
                   /\ vm'.ctxs[i].captures[2] = Top(vm).pos

\* A new capture array is search's (slot 0 the start position, the rest
\* unset) or a lookaround's copy of the enclosing one, in which slot 1 is
\* unset already: exec_sub's clearing of slot 1, and its restoring of it
\* when the sub-program fails, do not change a value.
NewArrays ==
    /\ Running("search_start") /\ vm'.st = "run" =>
           Ctx(vm').captures = [i \in 1..(2 * (parsed.gc + 1)) |->
                                    IF i = 1 THEN vm.start ELSE None]
    /\ (Running("lookahead") \/ Running("lookbehind")) =>
           Ctx(vm').captures = Ctx(vm).captures /\ Ctx(vm).captures[2] = None
    /\ NextTurn =>
           Ctx(vm').captures = Enclosing(vm).captures /\ Enclosing(vm).captures[2] = None
    /\ (Running("lookahead_return") \/ Running("lookbehind_return")) /\ ~vm.ret =>
           Ctx(vm).captures[2] = None

C28_ResultBounds ==
    Matched =>
        /\ ResultEnd # None
        /\ 0 <= ResultStart /\ ResultStart <= ResultEnd /\ ResultEnd <= Len(input)
        /\ ResultCaptures[1] = ResultStart
        /\ \A g \in 1..program.n_groups :
               GroupSet(g) =>
                   /\ 0 <= GroupStart(g)
                   /\ GroupStart(g) <= GroupEnd(g)
                   /\ GroupEnd(g) <= Len(input)
                   /\ GroupEnd(g) - GroupStart(g) >= 0
        /\ ResultEnd - ResultStart >= 0

\* A match that starts after position 0 and ends at the end of the input,
\* with a group that is not empty and a group that is unset.
C28_Witness ==
    /\ Matched
    /\ ResultStart > 0 /\ ResultEnd = Len(input)
    /\ \E g \in 1..program.n_groups : GroupSet(g) /\ GroupStart(g) < GroupEnd(g)
    /\ \E g \in 1..program.n_groups : ~GroupSet(g)

(***************************************************************************)
(* C29.  Counted repetition.                                               *)
(***************************************************************************)
Counted(node) == node.t = "Quantifier" /\ node.kind.k \in {"Exact", "AtLeast", "Range"}

\* The pattern is X{..} followed by the rest of the pattern (possibly empty).
HasCountedHead ==
    /\ phase = "search"
    /\ \/ Counted(parsed.node)
       \/ /\ parsed.node.t = "Concat"
          /\ Len(parsed.node.nodes) >= 1
          /\ Counted(parsed.node.nodes[1])
CountedHead == IF parsed.node.t = "Quantifier" THEN parsed.node ELSE parsed.node.nodes[1]
CountedRest ==
    IF parsed.node.t = "Quantifier" THEN Concat(<<>>) ELSE Concat(Tail(parsed.node.nodes))

\* The numbers of repetitions the kind allows on an input of the given length
\* (a repetition count beyond n + len adds nothing to X{n,}).
Counts(kind, len) ==
    CASE kind.k = "Exact" -> {kind.n}
      [] kind.k = "AtLeast" -> kind.n..(kind.n + len + 1)
      [] kind.k = "Range" -> kind.n..kind.m

RECURSIVE Repeated(_, _, _, _)
\* Where k consecutive matches of X end, and with which captures.
Repeated(progX, chars, confs, k) ==
    IF k = 0 THEN confs
    ELSE Repeated(progX, chars,
                  UNION {Accepting(progX, chars, 0, c.pos, c.caps) : c \in confs}, k - 1)

\* The matches of the pattern at start that take k repetitions of X and then
\* the rest of the pattern.
ThroughCount(start, k) ==
    LET progX == compile(CountedHead.node, program.n_groups)
        progRest == compile(CountedRest, program.n_groups)
        c0 == [pos |-> start, caps |-> fresh_captures(program, start)]
    IN  UNION {Accepting(progRest, input, 0, c.pos, c.caps) :
                   c \in Repeated(progX, input, {c0}, k)}

\* The repetition counts with which the pattern matches at start.
CountsAllowed(start) ==
    {k \in Counts(CountedHead.kind, Len(input)) : ThroughCount(start, k) # {}}

\* The program accepts at every start what k repetitions of X and the rest
\* accept, for the k of the kind, and nothing else.
AcceptsTheCounts ==
    \A start \in 0..Len(input) :
        Accepting(program, input, 0, start, fresh_captures(program, start))
            = UNION {ThroughCount(start, k) : k \in Counts(CountedHead.kind, Len(input))}

\* The reported match takes k repetitions of X.
ReportedTakes(k) ==
    \E a \in ThroughCount(ResultStart, k) :
        /\ a.pos = ResultEnd
        /\ \A i \in 3..Len(a.caps) : a.caps[i] = ResultCaptures[i]

Largest(ks) == CHOOSE k \in ks : \A j \in ks : j <= k
Smallest(ks) == CHOOSE k \in ks : \A j \in ks : k <= j

\* The greedy form takes the largest count the rest allows, the lazy form
\* the smallest.
TakesExtremalCount ==
    Matched =>
        /\ CountsAllowed(ResultStart) # {}
        /\ IF CountedHead.greedy THEN ReportedTakes(Largest(CountsAllowed(ResultStart)))
           ELSE ReportedTakes(Smallest(CountsAllowed(ResultStart)))

\* \d{2,4} on "x12345" reports "1234".
DigitsExample ==
    LET p == parse(<<"\\", "d", "{", "2", ",", "4", "}">>)
        r == Search(compile(p.node, p.gc), <<"x", "1", "2", "3", "4", "5">>)
    IN  p.ok /\ r.st = "matched" /\ r.start = 1 /\ r.ctxs[1].captures[2] = 5

OneCharacter(node) == node.t \in {"Literal", "Dot", "CharClass", "ShorthandClass"}

BackrefStart == Ctx(vm).captures[Cur(program, vm).group * 2 + 1]
BackrefEnd == Ctx(vm).captures[Cur(program, vm).group * 2 + 2]

\* The next step is a Backref whose group has both slots set.
BackrefSlotsSet ==
    /\ Running("backref")
    /\ Cur(program, vm).group * 2 < n_slots(program)
    /\ BackrefStart # None /\ BackrefEnd # None

\* The input has e - s characters left at pos and they are those of S[s..e].
SpanRepeatsAt(s, e, pos) ==
    /\ pos + (e - s) <= Len(input)
    /\ \A i \in 1..(e - s) : input[pos + i] = input[s + i]

\* The step goes on after the span, with captures and undo log as they were.
BackrefContinues ==
    /\ vm'.st = "run"
    /\ Len(vm'.frames) = Len(vm.frames)
    /\ Top(vm').pc = Top(vm).pc + 1
    /\ Top(vm').pos = Top(vm).pos + (BackrefEnd - BackrefStart)
    /\ vm'.ctxs = vm.ctxs

\* The step fails the branch: the activation returns false.
BackrefFailsBranch ==
    /\ vm'.st = "ret" /\ ~vm'.ret
    /\ Len(vm'.frames) = Len(vm.frames) - 1
    /\ vm'.ctxs = vm.ctxs

BackrefStepAsStated ==
    BackrefSlotsSet =>
        IF SpanRepeatsAt(BackrefStart, BackrefEnd, Top(vm).pos) THEN BackrefContinues
        ELSE BackrefFailsBranch

\* C30: Backref(g) with both slots of g set to (s, e) continues iff the input
\* has e - s characters left at pos and they equal S[s..e]; it then advances
\* pos by e - s and pc by 1 and leaves captures and undo log alone; otherwise
\* it fails the branch.
C30_BackrefComparesSpan == [][BackrefStepAsStated]_vars

\* The same for the steps whose slots are in order (s <= e).
BackrefOfOrderedSpan ==
    [][(BackrefSlotsSet /\ BackrefStart <= BackrefEnd) => BackrefStepAsStated]_vars

\* Backref steps of an ordered span that go on: over a span that is not
\* empty, and over an empty one.
BackrefOverText ==
    /\ BackrefSlotsSet /\ BackrefStart < BackrefEnd
    /\ SpanRepeatsAt(BackrefStart, BackrefEnd, Top(vm).pos)
BackrefOverNothing ==
    /\ BackrefSlotsSet /\ BackrefStart = BackrefEnd
    /\ Top(vm).pos < Len(input)

(***************************************************************************)
(* C31.  The dash and the leading ']' of a character class.                *)
(***************************************************************************)
\* The characters of the pattern are numbered from 1 here; the pattern
\* begins with '['.
ClassNegated(cs) == Len(cs) >= 2 /\ cs[2] = "^"
ClassBody(cs) == IF ClassNegated(cs) THEN 3 ELSE 2

\* At i stands an unescaped c, then '-', then a character other than ']'.
DashMakesRange(cs, i) ==
    /\ i + 2 <= Len(cs)
    /\ cs[i + 1] = "-"
    /\ cs[i + 2] # "]"

RECURSIVE ItemsFrom(_, _, _, _)
\* The items of the class read from i on, by the rules of the statement:
\* closed tells whether a ']' closes the class, end is the number of
\* characters up to and with that ']'.  With escaped_end, a backslash after
\* the dash of a range is not the range's end itself: the character after it
\* is, and a pattern that ends with that backslash has no class.
ItemsFrom(cs, i, items, escaped_end) ==
    IF i > Len(cs) THEN [closed |-> FALSE, items |-> items, end |-> Len(cs)]
    ELSE IF cs[i] = "]" /\ i = ClassBody(cs)
         THEN ItemsFrom(cs, i + 1, Append(items, ItemLiteral("]")), escaped_end)
    ELSE IF cs[i] = "]" THEN [closed |-> TRUE, items |-> items, end |-> i]
    ELSE IF cs[i] = "\\"
         THEN IF i = Len(cs) THEN [closed |-> FALSE, items |-> items, end |-> i]
              ELSE ItemsFrom(cs, i + 2, Append(items, class_escape_item(cs[i + 1])),
                             escaped_end)
    ELSE IF DashMakesRange(cs, i)
         THEN IF escaped_end /\ cs[i + 2] = "\\"
              THEN IF i + 2 = Len(cs) THEN [closed |-> FALSE, items |-> items, end |-> i + 2]
                   ELSE ItemsFrom(cs, i + 4, Append(items, ItemRange(cs[i], cs[i + 3])),
                                  escaped_end)
              ELSE ItemsFrom(cs, i + 3, Append(items, ItemRange(cs[i], cs[i + 2])),
                             escaped_end)
    ELSE ItemsFrom(cs, i + 1, Append(items, ItemLiteral(cs[i])), escaped_end)

\* parse_char_class and parse agree with the items read by the rules.
ParsesAs(cs, e) ==
    LET r == parse_char_class(cs, 0, 0)
    IN  /\ r.ok = e.closed
        /\ r.ok => /\ r.node = CharClassNode(e.items, ClassNegated(cs))
                   /\ r.pos = e.end
        /\ (e.closed /\ e.end = Len(cs)) =>
               /\ parsed.ok
               /\ parsed.node = CharClassNode(e.items, ClassNegated(cs))

ClassParsed == pattern \in ClassPatterns /\ phase # "parse"

\* C31 as stated: inside a class, an unescaped c followed by '-' and a
\* character other than ']' is the item Range(c, next); every other '-' is
\* Literal('-'), so the '-' before the closing ']' and the '-' that ends the
\* pattern; a ']' right after '[' or '[^' is Literal(']') and does not close
\* the class.
C31_ClassDashAndBracket ==
    ClassParsed => ParsesAs(pattern, ItemsFrom(pattern, ClassBody(pattern), <<>>, FALSE))

\* C31 amended: the same, where a backslash after the dash of a range stands
\* with the character after it for the end of the range.
C31_ClassDashWithEscapedEnd ==
    ClassParsed => ParsesAs(pattern, ItemsFrom(pattern, ClassBody(pattern), <<>>, TRUE))

\* A class with a range and, after it, the dash before the closing ']'.
C31_Witness ==
    /\ ClassParsed /\ parsed.ok /\ parsed.node.t = "CharClass"
    /\ \E j \in 1..Len(parsed.node.ranges) : parsed.node.ranges[j].i = "Range"
    /\ parsed.node.ranges[Len(parsed.node.ranges)] = ItemLiteral("-")
    /\ pattern[Len(pattern) - 1] = "-"

====
